---- MODULE Spec2Model ----
(***************************************************************************)
(* Model of the obsidian-markdown-blogger plugin: the folder-push          *)
(* pipeline (processMDFile), the block wrapper (wrapWithCustomComponent),  *)
(* the push-md-folder, push-md and pull-md commands and the PathModal.     *)
(*                                                                         *)
(* A JavaScript string is a sequence of one-character strings, so that the *)
(* regular expressions of the source are computed character by character.  *)
(***************************************************************************)
EXTENDS Integers, Sequences, FiniteSets, TLC

VARIABLES
    pc,             \* position of the running function
    doc,            \* how the input text was drawn from the pools
    content,        \* wrapWithCustomComponent: parameter content
    wrapper,        \* wrapWithCustomComponent: parameter wrapper
    headingWrapper, \* wrapWithCustomComponent: parameter headingWrapper
    blocks,         \* wrapWithCustomComponent: const blocks
    idx,            \* number of blocks the for-of loop has consumed
    currentBlock,   \* wrapWithCustomComponent: let currentBlock
    result,         \* wrapWithCustomComponent: let result
    output,         \* wrapWithCustomComponent: the returned string
    file,           \* the text of the source file at sourceFilePath
    parentFolderPath, \* processMDFile: parameter parentFolderPath
    mdContent,      \* processMDFile: let content
    frontMatter,    \* processMDFile: let frontMatter
    body,           \* processMDFile: let body
    updatedFrontMatter, \* processMDFile: let updatedFrontMatter
    written,        \* the text written to updatedDestinationPath
    settings,       \* this.settings of the plugin
    activeFile,     \* view.file: its path and name, or NoFile
    editorText,     \* editor.getDoc().getValue()
    disk,           \* the file system: absolute path |-> node
    notices,        \* the Notice objects created, in order
    errorModals,    \* the number of ErrorModal objects opened
    thrown,         \* an exception has left the callback
    destinationFolderPath,    \* push-md-folder: let destinationFolderPath
    completeParentFolderPath, \* push-md-folder: const completeParentFolderPath
    listing,        \* push-md-folder: what readdirSync returned
    entryIdx,       \* push-md-folder: entries the forEach has taken
    currPath,       \* PathModal: currPath
    action,         \* PathModal: action
    modalOpen,      \* PathModal: the modal is open
    items,          \* PathModal: what getItems returned at the last open
    dir             \* PathModal.onChooseItem: parameter dir

wrapVars == <<content, wrapper, headingWrapper, blocks, idx, currentBlock,
              result, output>>

mdVars == <<file, parentFolderPath, mdContent, frontMatter, body,
            updatedFrontMatter, written>>

envVars == <<settings, activeFile, editorText, disk, notices, errorModals,
             thrown>>

folderVars == <<destinationFolderPath, completeParentFolderPath, listing,
                entryIdx>>

modalVars == <<currPath, action, modalOpen, items, dir>>

cmdVars == <<envVars, folderVars, modalVars>>

vars == <<pc, doc, wrapVars, mdVars, cmdVars>>

-----------------------------------------------------------------------------
(* Characters and JavaScript string primitives *)

Letters ==
    {"a", "b", "c", "d", "e", "f", "g", "h", "i", "j", "k", "l", "m",
     "n", "o", "p", "q", "r", "s", "t", "u", "v", "w", "x", "y", "z",
     "A", "B", "C", "D", "E", "F", "G", "H", "I", "J", "K", "L", "M",
     "N", "O", "P", "Q", "R", "S", "T", "U", "V", "W", "X", "Y", "Z"}

Digits == {"0", "1", "2", "3", "4", "5", "6", "7", "8", "9"}

\* \s of a JavaScript regular expression, and String.prototype.trim: space,
\* \n, \t, \r, \f, \v (U+000B), U+00A0, U+1680 and U+FEFF. The other
\* white space of \s (U+2000 to U+200A, U+2028, U+2029, U+202F, U+205F,
\* U+3000) cannot be written in a string of this module; no text of the
\* model holds them.
IsSpace(c) ==
    c \in {" ", "\n", "\t", "\r", "\f", "", " ", " ", "﻿"}

\* what . does not match, and where ^ and $ match under the m flag (U+2028
\* and U+2029, which are line terminators too, cannot be written here)
IsLineTerminator(c) == c \in {"\n", "\r"}

\* [a-zA-Z0-9-]
IsNameChar(c) == c \in Letters \cup Digits \cup {"-"}

\* the least j in lo..hi with P(j), 0 when there is none
First(lo, hi, P(_)) ==
    IF \E j \in lo..hi : P(j)
    THEN CHOOSE j \in lo..hi : P(j) /\ \A k \in lo..(j - 1) : ~P(k)
    ELSE 0

\* the greatest j in lo..hi with P(j), 0 when there is none
Last(lo, hi, P(_)) ==
    IF \E j \in lo..hi : P(j)
    THEN CHOOSE j \in lo..hi : P(j) /\ \A k \in (j + 1)..hi : ~P(k)
    ELSE 0

\* p occurs in s at index i (1-based)
StartsWithAt(s, i, p) ==
    /\ i >= 1
    /\ i + Len(p) - 1 <= Len(s)
    /\ \A k \in 1..Len(p) : s[i + k - 1] = p[k]

\* String.prototype.startsWith
startsWith(s, p) == StartsWithAt(s, 1, p)

\* String.prototype.indexOf(p, i), 1-based, 0 when p does not occur: the
\* start is clamped to the string, and the empty p occurs at every index up
\* to the end of the string
IndexOfFrom(s, p, i) ==
    LET from == IF i < 1 THEN 1 ELSE IF i > Len(s) + 1 THEN Len(s) + 1 ELSE i
    IN  First(from, Len(s) + 1, LAMBDA j : StartsWithAt(s, j, p))

\* String.prototype.slice(i) with a 1-based start
SliceFrom(s, i) == SubSeq(s, i, Len(s))

\* String.prototype.trim: from the first to the last non-space character
trim(s) ==
    LET a == First(1, Len(s), LAMBDA j : ~IsSpace(s[j]))
        z == Last(1, Len(s), LAMBDA j : ~IsSpace(s[j]))
    IN  IF a = 0 THEN <<>> ELSE SubSeq(s, a, z)

\* Array.prototype.join
RECURSIVE join(_, _)
join(parts, sep) ==
    IF Len(parts) = 0 THEN <<>>
    ELSE IF Len(parts) = 1 THEN parts[1]
    ELSE parts[1] \o sep \o join(Tail(parts), sep)

\* ^ under the m flag matches before index i
IsLineStart(s, i) == i = 1 \/ (i - 1 <= Len(s) /\ IsLineTerminator(s[i - 1]))

\* $ under the m flag matches before index i
IsLineEnd(s, i) == i = Len(s) + 1 \/ (i <= Len(s) /\ IsLineTerminator(s[i]))

\* index of the last character a greedy .* takes when it starts at index i
LineEnd(s, i) ==
    LET t == First(i, Len(s), LAMBDA j : IsLineTerminator(s[j]))
    IN  IF t = 0 THEN Len(s) ELSE t - 1

\* index after the characters a greedy \s* takes when it starts at index i
SkipSpaces(s, i) ==
    LET t == First(i, Len(s), LAMBDA j : ~IsSpace(s[j]))
    IN  IF t = 0 THEN Len(s) + 1 ELSE t

-----------------------------------------------------------------------------
(* wrapWithCustomComponent: the four regular expressions *)

NoMatch == [index |-> 0, hashes |-> <<>>, text |-> <<>>]

\* /^(#{1,2})\s+(.*)$/m tried at index i: one or two '#' at a line start,
\* then at least one white-space character; \s+ is greedy and may run over
\* line breaks, (.*) is the rest of the line it stops in.
headingAt(s, i) ==
    LET n == IF StartsWithAt(s, i, <<"#", "#">>) THEN 2 ELSE 1
        j == SkipSpaces(s, i + n)
    IN  IF /\ IsLineStart(s, i)
           /\ s[i] = "#"
           /\ i + n <= Len(s)
           /\ IsSpace(s[i + n])
        THEN [index |-> i, hashes |-> SubSeq(s, i, i + n - 1),
              text |-> SubSeq(s, j, LineEnd(s, j))]
        ELSE NoMatch

\* headingRegex.exec(s): the leftmost match
headingRegex(s) ==
    LET i == First(1, Len(s), LAMBDA j : headingAt(s, j).index # 0)
    IN  IF i = 0 THEN NoMatch ELSE headingAt(s, i)

\* /^---[\s\S]*?---$/m .test(s)
frontMatterRegex(s) ==
    \E i \in 1..Len(s) :
        /\ IsLineStart(s, i)
        /\ StartsWithAt(s, i, <<"-", "-", "-">>)
        /\ \E j \in (i + 3)..Len(s) :
            /\ StartsWithAt(s, j, <<"-", "-", "-">>)
            /\ IsLineEnd(s, j + 3)

\* /^!\[.*?\]\(.*?\)$/m .test(s): a whole line of the form ![...](...)
imageRegex(s) ==
    \E i \in 1..Len(s) :
        /\ IsLineStart(s, i)
        /\ StartsWithAt(s, i, <<"!", "[">>)
        /\ LET e == LineEnd(s, i)
           IN  /\ s[e] = ")"
               /\ \E p \in (i + 2)..(e - 2) : StartsWithAt(s, p, <<"]", "(">>)

\* /<([a-zA-Z0-9-]+)([^>]*?)(\/?)>/ .test(s)
componentRegex(s) ==
    \E i \in 1..Len(s) :
        /\ s[i] = "<"
        /\ i + 1 <= Len(s)
        /\ IsNameChar(s[i + 1])
        /\ \E j \in (i + 2)..Len(s) : s[j] = ">"

-----------------------------------------------------------------------------
(* wrapWithCustomComponent: content.split(/\n\s*\n/) *)

\* last index in lo..hi holding "\n", 0 when there is none
LastNewline(s, lo, hi) == Last(lo, hi, LAMBDA j : s[j] = "\n")

\* /\n\s*\n/ tried at index q: the index after the match, 0 when it fails.
\* \s* is greedy and gives characters back until a "\n" follows.
SeparatorEnd(s, q) ==
    IF s[q] # "\n" THEN 0
    ELSE LET last == LastNewline(s, q + 1, SkipSpaces(s, q + 1) - 1)
         IN  IF last = 0 THEN 0 ELSE last + 1

\* the pieces of s from index p on: up to the leftmost match, then the rest
RECURSIVE splitFrom(_, _)
splitFrom(s, p) ==
    LET q == First(p, Len(s), LAMBDA j : SeparatorEnd(s, j) # 0)
    IN  IF q = 0 THEN <<SubSeq(s, p, Len(s))>>
        ELSE <<SubSeq(s, p, q - 1)>> \o splitFrom(s, SeparatorEnd(s, q))

split(s) == splitFrom(s, 1)

-----------------------------------------------------------------------------
(* wrapWithCustomComponent: the loop body *)

\* `<${tag}>\n${inner}\n</${tag}>`
Wrapped(tag, inner) ==
    <<"<">> \o tag \o <<">", "\n">> \o inner \o <<"\n", "<", "/">> \o tag \o <<">">>

\* `<${headingWrapper}>\n${hashes} ${headingContent}\n</${headingWrapper}>`
headingTag(m, hw) == Wrapped(hw, m.hashes \o <<" ">> \o m.text)

\* BlockKind with the two tests in the other order
BlockKindOpaqueFirst(trimmedBlock) ==
    IF \/ frontMatterRegex(trimmedBlock)
       \/ imageRegex(trimmedBlock)
       \/ componentRegex(trimmedBlock)
    THEN "Opaque"
    ELSE IF headingRegex(trimmedBlock).index # 0 THEN "Heading"
    ELSE "Plain"

\* which branch of the loop body a trimmed block takes
BlockKind(trimmedBlock) ==
    IF headingRegex(trimmedBlock).index # 0 THEN "Heading"
    ELSE IF \/ frontMatterRegex(trimmedBlock)
            \/ imageRegex(trimmedBlock)
            \/ componentRegex(trimmedBlock)
    THEN "Opaque"
    ELSE "Plain"

\* if (currentBlock) { result.push(`<${wrapper}>...`); currentBlock = "" }
PushCurrent(st, w) ==
    IF st.currentBlock # <<>>
    THEN [result |-> Append(st.result, Wrapped(w, trim(st.currentBlock))),
          currentBlock |-> <<>>]
    ELSE st

\* if (currentBlock) { result.push(`<${wrapper}>...`) } after the loop
PushRemaining(st, w) ==
    IF st.currentBlock # <<>>
    THEN [st EXCEPT !.result = Append(@, Wrapped(w, trim(st.currentBlock)))]
    ELSE st

\* the heading branch
HeadingBranch(st, trimmedBlock, w, hw) ==
    LET flushed == PushCurrent(st, w)
    IN  [flushed EXCEPT
            !.result = Append(@, headingTag(headingRegex(trimmedBlock), hw))]

\* OpaqueBranch without the push of the pending paragraphs
OpaqueBranchNoPush(st, trimmedBlock, w) ==
    [st EXCEPT !.result = Append(@, trimmedBlock)]

\* the front matter / image / component branch
OpaqueBranch(st, trimmedBlock, w) ==
    LET flushed == PushCurrent(st, w)
    IN  [flushed EXCEPT !.result = Append(@, trimmedBlock)]

\* PlainBranch that keeps only the latest paragraph
PlainBranchOverwrite(st, trimmedBlock) ==
    [st EXCEPT !.currentBlock = trimmedBlock]

\* the else branch: group consecutive paragraphs
PlainBranch(st, trimmedBlock) ==
    [st EXCEPT !.currentBlock =
        IF @ # <<>> THEN @ \o <<"\n", "\n">> \o trimmedBlock ELSE trimmedBlock]

\* one iteration of for (const block of blocks)
LoopBody(st, block, w, hw) ==
    LET trimmedBlock == trim(block)
        kind == BlockKind(trimmedBlock)
    IN  IF kind = "Heading" THEN HeadingBranch(st, trimmedBlock, w, hw)
        ELSE IF kind = "Opaque" THEN OpaqueBranch(st, trimmedBlock, w)
        ELSE PlainBranch(st, trimmedBlock)

RECURSIVE LoopFrom(_, _, _, _, _)
LoopFrom(st, bs, i, w, hw) ==
    IF i > Len(bs) THEN st
    ELSE LoopFrom(LoopBody(st, bs[i], w, hw), bs, i + 1, w, hw)

\* the whole function, as processMDFile calls it
wrapWithCustomComponent(c, w, hw) ==
    LET st == LoopFrom([result |-> <<>>, currentBlock |-> <<>>],
                       split(c), 1, w, hw)
    IN  join(PushRemaining(st, w).result, <<"\n", "\n">>)

DefaultWrapper == <<"C", "o", "n", "t", "e", "n", "t", "W", "r", "a", "p", "p", "e", "r">>
DefaultHeadingWrapper == <<"H", "e", "a", "d", "i", "n", "g", "W", "r", "a", "p", "p", "e", "r">>

-----------------------------------------------------------------------------
(* path.basename, path.join (POSIX) *)

\* the pieces of s between the occurrences of the character c
RECURSIVE splitChar(_, _)
splitChar(s, c) ==
    LET i == IndexOfFrom(s, <<c>>, 1)
    IN  IF i = 0 THEN <<s>>
        ELSE <<SubSeq(s, 1, i - 1)>> \o splitChar(SliceFrom(s, i + 1), c)

\* normalizeString: drop empty and "." segments, resolve ".."
RECURSIVE normalizeSegments(_, _, _)
normalizeSegments(segs, res, allowAboveRoot) ==
    IF Len(segs) = 0 THEN res
    ELSE LET seg == Head(segs)
             next ==
                IF seg = <<>> \/ seg = <<".">> THEN res
                ELSE IF seg = <<".", ".">>
                THEN IF Len(res) > 0 /\ res[Len(res)] # <<".", ".">>
                     THEN SubSeq(res, 1, Len(res) - 1)
                     ELSE IF allowAboveRoot THEN Append(res, seg) ELSE res
                ELSE Append(res, seg)
         IN  normalizeSegments(Tail(segs), next, allowAboveRoot)

\* path.normalize
normalize(p) ==
    IF Len(p) = 0 THEN <<".">>
    ELSE LET isAbsolute == p[1] = "/"
             trailingSeparator == p[Len(p)] = "/"
             n == join(normalizeSegments(splitChar(p, "/"), <<>>, ~isAbsolute),
                       <<"/">>)
         IN  IF Len(n) = 0
             THEN IF isAbsolute THEN <<"/">>
                  ELSE IF trailingSeparator THEN <<".", "/">> ELSE <<".">>
             ELSE (IF isAbsolute THEN <<"/">> ELSE <<>>) \o n \o
                  (IF trailingSeparator THEN <<"/">> ELSE <<>>)

\* path.join(a, b)
pathJoin(a, b) ==
    IF Len(a) = 0 /\ Len(b) = 0 THEN <<".">>
    ELSE IF Len(a) = 0 THEN normalize(b)
    ELSE IF Len(b) = 0 THEN normalize(a)
    ELSE normalize(a \o <<"/">> \o b)

RECURSIVE dropTrailingSlashes(_)
dropTrailingSlashes(p) ==
    IF Len(p) > 1 /\ p[Len(p)] = "/"
    THEN dropTrailingSlashes(SubSeq(p, 1, Len(p) - 1)) ELSE p

\* path.basename(p)
basename(p) ==
    LET q == dropTrailingSlashes(p)
        segs == splitChar(q, "/")
    IN  IF q = <<"/">> THEN <<>> ELSE segs[Len(segs)]

-----------------------------------------------------------------------------
(* path.dirname, path.extname, path.basename(p, ext), path.resolve (POSIX) *)

\* String.prototype.endsWith
endsWith(s, p) == StartsWithAt(s, Len(s) - Len(p) + 1, p)

\* path.dirname(p)
dirname(p) ==
    LET hasRoot == Len(p) > 0 /\ p[1] = "/"
        nz == Last(1, Len(p), LAMBDA j : p[j] # "/")
        e == Last(2, nz, LAMBDA j : p[j] = "/")
    IN  IF nz = 0 \/ e = 0 THEN (IF hasRoot THEN <<"/">> ELSE <<".">>)
        ELSE IF hasRoot /\ e = 2 THEN <<"/", "/">>
        ELSE SubSeq(p, 1, e - 1)

\* path.extname(p)
extname(p) ==
    LET b == basename(p)
        d == Last(1, Len(b), LAMBDA j : b[j] = ".")
    IN  IF d <= 1 \/ b = <<".", ".">> THEN <<>> ELSE SliceFrom(b, d)

\* path.basename(p, ext)
basenameExt(p, ext) ==
    LET b == basename(p)
    IN  IF Len(ext) = 0 THEN b
        ELSE IF ext = p THEN <<>>
        ELSE IF Len(b) > Len(ext) /\ endsWith(b, ext)
        THEN SubSeq(b, 1, Len(b) - Len(ext))
        ELSE b

\* process.cwd() of the application
Cwd == <<"/">>

\* the absolute path without a trailing slash that segments give
absolute(p) ==
    LET n == join(normalizeSegments(splitChar(p, "/"), <<>>, FALSE), <<"/">>)
    IN  <<"/">> \o n

\* path.resolve(a, b): from the right, up to the first absolute argument
resolve(a, b) ==
    IF Len(b) > 0 /\ b[1] = "/" THEN absolute(b)
    ELSE IF Len(a) > 0 /\ a[1] = "/" THEN absolute(a \o <<"/">> \o b)
    ELSE absolute(Cwd \o <<"/">> \o a \o <<"/">> \o b)

-----------------------------------------------------------------------------

(* processMDFile *)

\* `/work/${path.basename(parentFolderPath)}/`
customURLPrefix(folder) ==
    <<"/", "w", "o", "r", "k", "/">> \o basename(folder) \o <<"/">>

NoLink == [close |-> 0, p1 |-> <<>>]

\* /!\[[^\]]*\]\((images\/[^\)]+)\)/ tried at index i: close is the index of
\* the closing parenthesis, p1 the captured path
imageLinkAt(s, i) ==
    IF ~StartsWithAt(s, i, <<"!", "[">>) THEN NoLink
    ELSE LET j == IndexOfFrom(s, <<"]">>, i + 2)
         IN  IF j = 0 \/ ~StartsWithAt(s, j + 1, <<"(", "i", "m", "a", "g", "e", "s", "/">>) THEN NoLink
             ELSE LET k == IndexOfFrom(s, <<")">>, j + 9)
                  IN  IF k = 0 \/ k = j + 9 THEN NoLink
                      ELSE [close |-> k, p1 |-> SubSeq(s, j + 2, k - 1)]

\* the character that starts a replacement pattern
Dollar == Head(<<"$">>)

Apostrophe == "'"

\* the backquote, taken from a string that closes the quotation it opens
Backquote == SubSeq("`'", 1, 1)

\* GetSubstitution for a pattern without capture groups, from index i of the
\* replacement on: $$ is a dollar sign, $& the matched text, $` the text
\* before the match and $' the text after it; any other $ stands for itself
RECURSIVE substituteFrom(_, _, _, _, _)
substituteFrom(replacement, i, matched, before, after) ==
    LET q == First(i, Len(replacement) - 1, LAMBDA j : replacement[j] = Dollar)
    IN  IF q = 0 THEN SliceFrom(replacement, i)
        ELSE LET c == replacement[q + 1]
             IN  IF c \in {Dollar, "&", Backquote, Apostrophe}
                 THEN SubSeq(replacement, i, q - 1)
                      \o (CASE c = Dollar -> <<Dollar>>
                            [] c = "&" -> matched
                            [] c = Backquote -> before
                            [] c = Apostrophe -> after)
                      \o substituteFrom(replacement, q + 2, matched, before,
                                        after)
                 ELSE SubSeq(replacement, i, q)
                      \o substituteFrom(replacement, q + 1, matched, before,
                                        after)

\* the text a replacement string stands for at a match
GetSubstitution(replacement, matched, before, after) ==
    substituteFrom(replacement, 1, matched, before, after)

\* String.prototype.replace(pattern, replacement) with a string pattern: the
\* first occurrence only, the replacement string expanded
replaceFirst(s, pattern, replacement) ==
    LET i == IndexOfFrom(s, pattern, 1)
    IN  IF i = 0 THEN s
        ELSE SubSeq(s, 1, i - 1)
             \o GetSubstitution(replacement, pattern, SubSeq(s, 1, i - 1),
                                SliceFrom(s, i + Len(pattern)))
             \o SliceFrom(s, i + Len(pattern))

\* (match, p1) => match.replace(p1, `${customURLPrefix}${p1}`)
replaceInMatch(match, p1, prefix) == replaceFirst(match, p1, prefix \o p1)

\* content.replace(/.../g, callback) from index i on: the text up to the
\* leftmost match, the callback's result, then the rest
RECURSIVE replaceImagesFrom(_, _, _)
replaceImagesFrom(s, i, prefix) ==
    LET q == First(i, Len(s), LAMBDA j : imageLinkAt(s, j).close # 0)
        m == imageLinkAt(s, q)
    IN  IF q = 0 THEN SliceFrom(s, i)
        ELSE SubSeq(s, i, q - 1)
             \o replaceInMatch(SubSeq(s, q, m.close), m.p1, prefix)
             \o replaceImagesFrom(s, m.close + 1, prefix)

replaceImagePaths(s, prefix) == replaceImagesFrom(s, 1, prefix)

\* content.match(/^---\n([\s\S]*?)\n---/): length is that of the whole match
frontMatterMatch(s) ==
    LET j == IndexOfFrom(s, <<"\n", "-", "-", "-">>, 5)
    IN  IF startsWith(s, <<"-", "-", "-", "\n">>) /\ j # 0
        THEN [found |-> TRUE, group |-> SubSeq(s, 5, j - 1), length |-> j + 3]
        ELSE [found |-> FALSE, group |-> <<>>, length |-> 0]

\* frontMatterMatch ? frontMatterMatch[1] : ""
frontMatterOf(s) == frontMatterMatch(s).group

\* bodyOf with the defaults of frontMatter and body swapped
bodyOfEmpty(s) ==
    IF frontMatterMatch(s).found
    THEN SliceFrom(s, frontMatterMatch(s).length + 1) ELSE <<>>

\* frontMatterMatch ? content.slice(frontMatterMatch[0].length) : content
bodyOf(s) ==
    IF frontMatterMatch(s).found
    THEN SliceFrom(s, frontMatterMatch(s).length + 1) ELSE s

\* frontMatter.match(/cover_url:\s*(.*)/)
coverUrlMatch(fm) ==
    LET i == IndexOfFrom(fm, <<"c", "o", "v", "e", "r", "_", "u", "r", "l", ":">>, 1)
        j == SkipSpaces(fm, i + 10)
    IN  IF i = 0 THEN [found |-> FALSE, group |-> <<>>]
        ELSE [found |-> TRUE, group |-> SubSeq(fm, j, LineEnd(fm, j))]

\* coverUrl.replace(/^"\[\[|\]\]"$/g, "")
stripWikiLink(c) ==
    LET a == IF startsWith(c, <<"\"", "[", "[">>) THEN 3 ELSE 0
        z == IF Len(c) - 2 >= a + 1 /\ StartsWithAt(c, Len(c) - 2, <<"]", "]", "\"">>)
             THEN 3 ELSE 0
    IN  SubSeq(c, a + 1, Len(c) - z)

\* the value of the local coverUrl after the if
coverUrlOf(group, prefix) ==
    LET coverUrl == trim(group)
    IN  IF ~startsWith(coverUrl, <<"h", "t", "t", "p">>) /\ ~startsWith(coverUrl, <<"/">>)
        THEN pathJoin(prefix, stripWikiLink(coverUrl))
        ELSE coverUrl

NoQuoted == [start |-> 0, close |-> 0]

\* the pattern without its quotes, /cover_url:\s*.*/, searched from index from on
anyCoverUrlFrom(fm, from) ==
    LET i == IndexOfFrom(fm, <<"c", "o", "v", "e", "r", "_", "u", "r", "l", ":">>, from)
    IN  IF i = 0 THEN NoQuoted
        ELSE [start |-> i, close |-> LineEnd(fm, SkipSpaces(fm, i + 10))]

\* /cover_url:\s*".*?"/ searched from index from on
RECURSIVE quotedCoverUrlFrom(_, _)
quotedCoverUrlFrom(fm, from) ==
    LET i == IndexOfFrom(fm, <<"c", "o", "v", "e", "r", "_", "u", "r", "l", ":">>, from)
        j == SkipSpaces(fm, i + 10)
        k == IndexOfFrom(fm, <<"\"">>, j + 1)
    IN  IF i = 0 THEN NoQuoted
        ELSE IF /\ j <= Len(fm)
                /\ fm[j] = "\""
                /\ k # 0
                /\ k <= LineEnd(fm, j + 1)
        THEN [start |-> i, close |-> k]
        ELSE quotedCoverUrlFrom(fm, i + 1)

\* replaceQuotedCoverUrl whose pattern takes the value with or without quotes
replaceAnyCoverUrl(fm, coverUrl) ==
    LET m == anyCoverUrlFrom(fm, 1)
    IN  IF m.start = 0 THEN fm
        ELSE SubSeq(fm, 1, m.start - 1) \o <<"c", "o", "v", "e", "r", "_", "u", "r", "l", ":", " ">> \o coverUrl
             \o SliceFrom(fm, m.close + 1)

\* frontMatter.replace(/cover_url:\s*".*?"/, `cover_url: ${coverUrl}`)
replaceQuotedCoverUrl(fm, coverUrl) ==
    LET m == quotedCoverUrlFrom(fm, 1)
    IN  IF m.start = 0 THEN fm
        ELSE SubSeq(fm, 1, m.start - 1)
             \o GetSubstitution(<<"c", "o", "v", "e", "r", "_", "u", "r", "l", ":", " ">> \o coverUrl,
                                SubSeq(fm, m.start, m.close),
                                SubSeq(fm, 1, m.start - 1),
                                SliceFrom(fm, m.close + 1))
             \o SliceFrom(fm, m.close + 1)

\* the value of updatedFrontMatter after the if/else
updatedFrontMatterOf(fm, prefix) ==
    IF coverUrlMatch(fm).found
    THEN replaceQuotedCoverUrl(fm, coverUrlOf(coverUrlMatch(fm).group, prefix))
    ELSE fm \o <<"\n", "c", "o", "v", "e", "r", "_", "u", "r", "l", ":", " ">>

\* `---\n${updatedFrontMatter}\n---\n${body}`
reassemble(updated, rest) ==
    <<"-", "-", "-", "\n">> \o updated \o <<"\n", "-", "-", "-", "\n">> \o rest

-----------------------------------------------------------------------------
(* The fs calls of the commands, on a disk: absolute path |-> node *)

\* const DEFAULT_SETTINGS
DEFAULT_SETTINGS ==
    [pathMappings |-> <<>>, basePath |-> <<>>, defaultProjectFolder |-> <<>>,
     showHiddenFolders |-> FALSE]

\* no active file: view.file is undefined
NoFile == [present |-> FALSE, path |-> <<>>, name |-> <<>>]

EmptyDisk == [q \in {} |-> q]

Dir == [kind |-> "dir", data |-> <<>>, readable |-> TRUE]

File(data) == [kind |-> "file", data |-> data, readable |-> TRUE]

\* what a path that names no entry is resolved to
NoEntry == <<>>

\* the path of the name seg in the directory cur
childPath(cur, seg) ==
    IF cur = <<"/">> THEN cur \o seg ELSE cur \o <<"/">> \o seg

\* the operating system's walk along the segments of a path, from segment k
\* on: every segment, the empty one after a trailing slash too, is looked up
\* in a directory; the last name may be missing
RECURSIVE walkFrom(_, _, _, _)
walkFrom(d, cur, segs, k) ==
    IF k > Len(segs) THEN cur
    ELSE IF cur \notin DOMAIN d \/ d[cur].kind # "dir" THEN NoEntry
    ELSE IF segs[k] \in {<<>>, <<".">>} THEN walkFrom(d, cur, segs, k + 1)
    ELSE IF segs[k] = <<".", ".">> THEN walkFrom(d, dirname(cur), segs, k + 1)
    ELSE walkFrom(d, childPath(cur, segs[k]), segs, k + 1)

\* the entry an fs call takes its argument for: the path of the entry, the
\* path a missing last name would have, or NoEntry (ENOENT, ENOTDIR)
fsPath(d, p) ==
    IF Len(p) = 0 THEN NoEntry
    ELSE walkFrom(d, <<"/">>,
                  splitChar(IF p[1] = "/" THEN p ELSE Cwd \o <<"/">> \o p, "/"),
                  1)

\* fs.existsSync(p)
existsSync(d, p) == fsPath(d, p) \in DOMAIN d

\* fs.lstatSync(p).isDirectory(), fs.statSync(p).isDirectory()
isDirectory(d, p) == fsPath(d, p) \in DOMAIN d /\ d[fsPath(d, p)].kind = "dir"

\* the paths of d at or below the entry q
Under(d, q) == {r \in DOMAIN d : r = q \/ startsWith(r, q \o <<"/">>)}

\* q and the directories above it
Ancestors(q) ==
    {q, <<"/">>} \cup {SubSeq(q, 1, j - 1) : j \in {k \in 2..Len(q) : q[k] = "/"}}

\* fs.mkdirSync(p, {recursive: true}) throws: a file is in the way
mkdirThrows(d, p) ==
    \E a \in Ancestors(resolve(p, <<>>)) : a \in DOMAIN d /\ d[a].kind # "dir"

\* fs.mkdirSync(p, {recursive: true})
mkdirSync(d, p) == d @@ [a \in Ancestors(resolve(p, <<>>)) |-> Dir]

\* fs.readdirSync(p) throws: p is not a directory
readdirThrows(d, p) == ~isDirectory(d, p)

\* the names fs.readdirSync(p) returns
readdirNames(d, p) ==
    {basename(r) : r \in {x \in DOMAIN d :
                            x # fsPath(d, p) /\ dirname(x) = fsPath(d, p)}}

\* fs.readFileSync(p, "utf8") throws: no such file, a directory, no permission
readFileThrows(d, p) ==
    \/ fsPath(d, p) \notin DOMAIN d
    \/ d[fsPath(d, p)].kind = "dir"
    \/ ~d[fsPath(d, p)].readable

\* fs.readFileSync(p, "utf8")
readFileSync(d, p) == d[fsPath(d, p)].data

\* fs.writeFileSync(p, data) throws: no parent directory, p is a directory,
\* or a file without permission
writeFileThrows(d, p) ==
    \/ fsPath(d, p) = NoEntry
    \/ /\ fsPath(d, p) \in DOMAIN d
       /\ d[fsPath(d, p)].kind = "dir" \/ ~d[fsPath(d, p)].readable

\* fs.writeFileSync(p, data, {encoding: "utf8"})
writeFileSync(d, p, data) == (fsPath(d, p) :> File(data)) @@ d

\* fs.copyFileSync(src, dst) throws
copyFileThrows(d, src, dst) == readFileThrows(d, src) \/ writeFileThrows(d, dst)

\* fs.copyFileSync(src, dst)
copyFileSync(d, src, dst) == writeFileSync(d, dst, readFileSync(d, src))

\* where fs.cpSync puts the entry r of the tree from when it copies it to to
cpTarget(from, to, r) == to \o SliceFrom(r, Len(from) + 1)

\* the entries of the tree from at which fs.cpSync stops with an error: a
\* file that cannot be read, a file whose target is a directory, a directory
\* whose target is a file
cpStops(d, from, to) ==
    {r \in Under(d, from) :
        \/ d[r].kind = "file" /\ ~d[r].readable
        \/ /\ cpTarget(from, to, r) \in DOMAIN d
           /\ d[cpTarget(from, to, r)].kind # d[r].kind}

\* fs.cpSync stops before it has written anything: no source, the
\* destination is the source or lies inside it, a file is in the way of the
\* destination's parent directories, or the source itself cannot be copied
\* onto the destination
cpRefuses(d, src, dst) ==
    LET from == fsPath(d, src)
        to == resolve(dst, <<>>)
    IN  \/ from \notin DOMAIN d
        \/ to = from
        \/ startsWith(to, from \o <<"/">>)
        \/ mkdirThrows(d, dirname(to))
        \/ from \in cpStops(d, from, to)

\* fs.cpSync(src, dst, {recursive: true}) of a directory throws
cpThrows(d, src, dst) ==
    \/ cpRefuses(d, src, dst)
    \/ cpStops(d, fsPath(d, src), resolve(dst, <<>>)) # {}

\* the disk with the entries rs of the tree from copied to to: a directory
\* that is there is kept, a file is replaced
cpCopied(d, from, to, rs) ==
    [t \in {q \in {cpTarget(from, to, r) : r \in rs} :
                q \notin DOMAIN d \/ d[q].kind = "file"}
        |-> d[CHOOSE r \in rs : cpTarget(from, to, r) = t]]
    @@ mkdirSync(d, dirname(to))

\* fs.cpSync(src, dst, {recursive: true}) of a directory: the missing parent
\* directories of dst are made, then the tree is copied
cpSync(d, src, dst) ==
    cpCopied(d, fsPath(d, src), resolve(dst, <<>>), Under(d, fsPath(d, src)))

\* what fs.cpSync may leave when it throws: the disk, and the path its error
\* names. It copies the entries of a directory one after the other, in the
\* order the directory gives them, a sub-directory with all it holds: when it
\* stops at the entry c the directories above c are made, and of the entries
\* beside c and beside those directories any may have been copied, whole,
\* before. A file that is at the target of c is unlinked before c is read
\* (force), so it is gone when c cannot be read
cpStopped(d, src, dst) ==
    LET from == fsPath(d, src)
        to == resolve(dst, <<>>)
        stops == cpStops(d, from, to)
        above(c) == {a \in Under(d, from) : startsWith(c, a \o <<"/">>)}
        beside(c) ==
            {r \in Under(d, from) :
                /\ r # c
                /\ r \notin above(c)
                /\ dirname(r) \in above(c)
                /\ Under(d, r) \cap stops = {}}
        unlinked(c) ==
            {t \in {cpTarget(from, to, c)} :
                d[c].kind = "file" /\ t \in DOMAIN d /\ d[t].kind = "file"}
        left(c, done) ==
            LET copied ==
                   cpCopied(d, from, to,
                            above(c) \cup UNION {Under(d, r) : r \in done})
            IN  [q \in DOMAIN copied \ unlinked(c) |-> copied[q]]
    IN  IF cpRefuses(d, src, dst) THEN {[disk |-> d, at |-> to]}
        ELSE UNION {{[disk |-> left(c, done), at |-> cpTarget(from, to, c)] :
                        done \in SUBSET beside(c)} :
                       c \in {x \in stops : above(x) \cap stops = {}}}

-----------------------------------------------------------------------------
(* PathModal: getItems *)

\* os.homedir()
HomeDir == <<"/", "r", "o", "o", "t">>

\* keptNames without the test of the first character
keptNamesWithHidden(d, at, view, showHidden) ==
    {n \in readdirNames(d, at) :
        /\ resolve(at, n) \in DOMAIN d
        /\ \/ isDirectory(d, resolve(at, n))
           \/ (view.present /\ basename(resolve(at, n)) = view.name)}

\* the names the filter of getItems keeps
keptNames(d, at, view, showHidden) ==
    {n \in readdirNames(d, at) :
        /\ resolve(at, n) \in DOMAIN d
        /\ \/ isDirectory(d, resolve(at, n))
           \/ (view.present /\ basename(resolve(at, n)) = view.name)
        /\ n[1] # "." \/ showHidden}

\* the lists getItems may return: the kept names in the order readdirSync
\* gave them, then ".." and "Select"
getItems(d, at, view, showHidden) ==
    {o \o <<<<".", ".">>, <<"S", "e", "l", "e", "c", "t">>>> :
        o \in {f \in [1..Cardinality(keptNames(d, at, view, showHidden))
                        -> keptNames(d, at, view, showHidden)] :
                  \A i, j \in DOMAIN f : i # j => f[i] # f[j]}}

-----------------------------------------------------------------------------

(* push-md-folder: the values of the callback *)

\* processMDFile: the text it writes for the text it reads
processedText(text, folder) ==
    LET prefix == customURLPrefix(folder)
        c == replaceImagePaths(text, prefix)
    IN  wrapWithCustomComponent(
            reassemble(updatedFrontMatterOf(frontMatterOf(c), prefix),
                       bodyOf(c)),
            DefaultWrapper, DefaultHeadingWrapper)

\* updatedDestinationPath that keeps the name of the source file
sameDestinationPath(destinationFilePath, name) == destinationFilePath

\* processMDFile: updatedDestinationPath
updatedDestinationPath(destinationFilePath, name) ==
    pathJoin(dirname(destinationFilePath),
             basenameExt(name, extname(name)) \o <<".", "m", "d", "x">>)

\* the mapping found when the last match is taken
findLastMapping(pathMappings, folder) ==
    Last(1, Len(pathMappings), LAMBDA j : pathMappings[j].sourcePath = folder)

\* pathMappings.find((mapping) => mapping.sourcePath === folder): its index,
\* or 0
findMapping(pathMappings, folder) ==
    First(1, Len(pathMappings), LAMBDA j : pathMappings[j].sourcePath = folder)

\* file.endsWith(".md") || file.endsWith(".mdx")
isMarkdownName(name) == endsWith(name, <<".", "m", "d">>) \/ endsWith(name, <<".", "m", "d", "x">>)

\* new Notice(...)
Notice(kind, path) == [kind |-> kind, path |-> path]

-----------------------------------------------------------------------------

(* Inputs of wrapWithCustomComponent: texts drawn block by block *)

MaxBlocks == 3

BlockNames == {"P1", "P2", "H1", "H2", "HI", "HC", "HF", "IM", "CO", "FM"}

BlockText ==
    [n \in BlockNames |->
        CASE n = "P1" -> <<"S", "o", "m", "e", " ", "t", "e", "x", "t", ".">>
          [] n = "P2" -> <<"M", "o", "r", "e", " ", "t", "e", "x", "t", ".">>
          [] n = "H1" -> <<"#", " ", "T", "i", "t", "l", "e">>
          [] n = "H2" -> <<"#", "#", " ", " ", "S", "u", "b", "\n", "n", "o", "t", "e">>
          [] n = "HI" -> <<"#", " ", "P", "i", "c", "\n", "!", "[", "a", "]", "(", "b", ".", "p", "n", "g", ")">>
          [] n = "HC" -> <<"#", "#", " ", "T", "i", "p", " ", "<", "N", "o", "t", "e", "/", ">">>
          [] n = "HF" -> <<"#", " ", "M", "e", "t", "a", "\n", "-", "-", "-", "\n", "k", ":", " ", "v", "\n", "-", "-", "-">>
          [] n = "IM" -> <<"!", "[", "a", "]", "(", "b", ".", "p", "n", "g", ")">>
          [] n = "CO" -> <<"<", "N", "o", "t", "e", "/", ">">>
          [] n = "FM" -> <<"-", "-", "-", "\n", "k", ":", " ", "v", "\n", "-", "-", "-">>]

TextsOf(d) == [k \in 1..Len(d) |-> BlockText[d[k]]]

LayoutNames == {"tight", "loose", "trail"}

\* what separates two blocks, and what follows the last one
Separator ==
    [l \in LayoutNames |->
        CASE l = "tight" -> <<"\n", "\n">>
          [] l = "loose" -> <<"\n", " ", "\n", "\n">>
          [] l = "trail" -> <<"\n", "\n", "\n">>]

Ending ==
    [l \in LayoutNames |->
        CASE l = "tight" -> <<>>
          [] l = "loose" -> <<"\n">>
          [] l = "trail" -> <<"\n", "\n">>]

WrapDocs ==
    [blocks : UNION {[1..n -> BlockNames] : n \in 0..MaxBlocks},
     layout : LayoutNames]

WrapText(d) ==
    join(TextsOf(d.blocks), Separator[d.layout]) \o Ending[d.layout]

-----------------------------------------------------------------------------
(* Inputs of processMDFile: a front matter variant and a body *)

MaxBodyBlocks == 2

LineNames ==
    {"title", "tags", "wiki", "wikidir", "wikidollar", "abs", "http", "bare",
     "unq", "empty", "ogcover", "ogquoted", "indented"}

CoverLines ==
    {"wiki", "wikidir", "wikidollar", "abs", "http", "bare", "unq", "empty"}

\* lines that hold the text cover_url: elsewhere than at their start: the
\* key of the line is another one, or the line is not a top-level key
OffStartLines == {"ogcover", "ogquoted", "indented"}

LineText ==
    [n \in LineNames |->
        CASE n = "title" -> <<"t", "i", "t", "l", "e", ":", " ", "T">>
          [] n = "tags"  -> <<"t", "a", "g", "s", ":", " ", "\"", "a", "\"">>
          [] n = "wiki"  -> <<"c", "o", "v", "e", "r", "_", "u", "r", "l", ":", " ", "\"", "[", "[", "c", "o", "v", "e", "r", ".", "p", "n", "g", "]", "]", "\"">>
          [] n = "wikidir" -> <<"c", "o", "v", "e", "r", "_", "u", "r", "l", ":", " ", "\"", "[", "[", "a", "s", "s", "e", "t", "s", "/", "c", ".", "p", "n", "g", "]", "]", "\"">>
          [] n = "wikidollar" -> <<"c", "o", "v", "e", "r", "_", "u", "r", "l", ":", " ", "\"", "[", "[", "a", "$", "$", "b", ".", "p", "n", "g", "]", "]", "\"">>
          [] n = "abs"   -> <<"c", "o", "v", "e", "r", "_", "u", "r", "l", ":", " ", "/", "a", "b", "s", ".", "p", "n", "g">>
          [] n = "http"  -> <<"c", "o", "v", "e", "r", "_", "u", "r", "l", ":", " ", " ", "h", "t", "t", "p", ":", "/", "/", "x", "/", "c", ".", "p", "n", "g">>
          [] n = "bare"  -> <<"c", "o", "v", "e", "r", "_", "u", "r", "l", ":", " ", "c", "o", "v", "e", "r", ".", "p", "n", "g">>
          [] n = "unq"   -> <<"c", "o", "v", "e", "r", "_", "u", "r", "l", ":", " ", "[", "[", "c", "o", "v", "e", "r", ".", "p", "n", "g", "]", "]">>
          [] n = "empty" -> <<"c", "o", "v", "e", "r", "_", "u", "r", "l", ":", " ">>
          [] n = "ogcover" -> <<"o", "g", "_", "c", "o", "v", "e", "r", "_", "u", "r", "l", ":", " ", "x">>
          [] n = "ogquoted" -> <<"o", "g", "_", "c", "o", "v", "e", "r", "_", "u", "r", "l", ":", " ", "\"", "x", "\"">>
          [] n = "indented" -> <<" ", " ", "c", "o", "v", "e", "r", "_", "u", "r", "l", ":", " ", "x">>]

FenceNames == {"ok", "four", "tail", "open"}

\* the closing fence line of a front matter variant ("open": none)
FenceText ==
    [n \in FenceNames |->
        CASE n = "ok"   -> <<"-", "-", "-", "\n">>
          [] n = "four" -> <<"-", "-", "-", "-", "\n">>
          [] n = "tail" -> <<"-", "-", "-", "x", "\n">>
          [] n = "open" -> <<>>]

\* front matter variants: well-fenced ones with at most one line that holds
\* the text cover_url:, at its start or elsewhere,
\* and one-line ones whose closing fence is malformed or missing
Heads ==
    {[fenced |-> TRUE, lines |-> pre \o cover \o post, fence |-> "ok"] :
        pre \in {<<>>, <<"title">>},
        cover \in {<<>>} \cup {<<c>> : c \in CoverLines \cup OffStartLines},
        post \in {<<>>, <<"tags">>}}
    \cup {[fenced |-> TRUE, lines |-> <<"title">>, fence |-> f] :
            f \in {"four", "tail", "open"}}
    \cup {[fenced |-> FALSE, lines |-> <<>>, fence |-> "open"]}

RECURSIVE LinesText(_)
LinesText(ls) ==
    IF Len(ls) = 0 THEN <<>>
    ELSE LineText[Head(ls)] \o <<"\n">> \o LinesText(Tail(ls))

HeadText(h) ==
    IF h.fenced THEN <<"-", "-", "-", "\n">> \o LinesText(h.lines) \o FenceText[h.fence]
    ELSE <<>>

BodyNames == {"text", "head", "img", "inl", "ext", "dup"}

Txt(t) == [kind |-> "text", alt |-> t, target |-> <<>>]
Img(a, t) == [kind |-> "image", alt |-> a, target |-> t]

\* a body block is a sequence of text and image segments
BodySegments ==
    [n \in BodyNames |->
        CASE n = "text" -> <<Txt(<<"H", "e", "l", "l", "o">>)>>
          [] n = "head" -> <<Txt(<<"#", " ", "T", "i", "t", "l", "e">>)>>
          [] n = "img"  -> <<Img(<<"c", "o", "v", "e", "r">>, <<"i", "m", "a", "g", "e", "s", "/", "a", ".", "p", "n", "g">>)>>
          [] n = "inl"  -> <<Txt(<<"S", "e", "e", " ">>), Img(<<"p", "i", "c">>, <<"i", "m", "a", "g", "e", "s", "/", "b", "/", "c", ".", "p", "n", "g">>),
                             Txt(<<" ", "n", "o", "w">>)>>
          [] n = "ext"  -> <<Img(<<"x">>, <<"h", "t", "t", "p", ":", "/", "/", "e", "/", "b", ".", "p", "n", "g">>)>>
          [] n = "dup"  -> <<Img(<<"i", "m", "a", "g", "e", "s", "/", "a", ".", "p", "n", "g">>, <<"i", "m", "a", "g", "e", "s", "/", "a", ".", "p", "n", "g">>)>>]

\* ![alt](target)
ImageMarkup(alt, target) == <<"!", "[">> \o alt \o <<"]", "(">> \o target \o <<")">>

SegmentText(seg) ==
    IF seg.kind = "image" THEN ImageMarkup(seg.alt, seg.target) ELSE seg.alt

RECURSIVE SegmentsText(_)
SegmentsText(segs) ==
    IF Len(segs) = 0 THEN <<>>
    ELSE SegmentText(Head(segs)) \o SegmentsText(Tail(segs))

BodyText(b) ==
    join([k \in 1..Len(b) |-> SegmentsText(BodySegments[b[k]])], <<"\n", "\n">>)

Bodies == UNION {[1..n -> BodyNames] : n \in 0..MaxBodyBlocks}

SourceDocs == [head : Heads, body : Bodies]

SourceText(d) == HeadText(d.head) \o BodyText(d.body)

ParentFolders == {<<"p", "r", "o", "j">>, <<"n", "o", "t", "e", "s", "/", "m", "y", "-", "p", "o", "s", "t">>}

-----------------------------------------------------------------------------
(* Inputs of push-md-folder: a vault folder, a destination, settings *)

MaxEntries == 3

ActiveNote == <<"i", "n", "d", "e", "x", ".", "m", "d">>

OtherEntries == {<<"p", "o", "s", "t", ".", "m", "d", "x">>, <<"d", "a", "t", "a", ".", "b", "i", "n">>, <<"i", "m", "a", "g", "e", "s">>}

\* the vault folder of the active note, and the vault above it
VaultPath == <<"/", "v", "a", "u", "l", "t">>
PostFolder == <<"n", "o", "t", "e", "s", "/", "m", "y", "-", "p", "o", "s", "t">>
PostPath == <<"/", "v", "a", "u", "l", "t", "/", "n", "o", "t", "e", "s", "/", "m", "y", "-", "p", "o", "s", "t">>

\* what a name of the vault folder is on disk
EntryNodes(name) ==
    CASE name = <<"i", "n", "d", "e", "x", ".", "m", "d">> ->
            (PostPath \o <<"/", "i", "n", "d", "e", "x", ".", "m", "d">> :>
                File(<<"-", "-", "-", "\n", "c", "o", "v", "e", "r", "_", "u", "r", "l", ":", " ", "\"", "[", "[", "c", "o", "v", "e", "r", ".", "p", "n", "g", "]", "]", "\"", "\n", "-", "-", "-", "\n", "#", " ", "T", "i", "t", "l", "e", "\n", "\n", "!", "[", "c", "o", "v", "e", "r", "]", "(", "i", "m", "a", "g", "e", "s", "/", "a", ".", "p", "n", "g", ")">>))
      [] name = <<"p", "o", "s", "t", ".", "m", "d", "x">> ->
            (PostPath \o <<"/", "p", "o", "s", "t", ".", "m", "d", "x">> :> File(<<"H", "e", "l", "l", "o">>))
      [] name = <<"d", "a", "t", "a", ".", "b", "i", "n">> ->
            (PostPath \o <<"/", "d", "a", "t", "a", ".", "b", "i", "n">> :> File(<<"B", "I", "N">>))
      [] name = <<"i", "m", "a", "g", "e", "s">> ->
            (PostPath \o <<"/", "i", "m", "a", "g", "e", "s">> :> Dir)
            @@ (PostPath \o <<"/", "i", "m", "a", "g", "e", "s", "/", "a", ".", "p", "n", "g">> :> File(<<"P", "N", "G">>))
            @@ (PostPath \o <<"/", "i", "m", "a", "g", "e", "s", "/", "n", ".", "m", "d">> :> File(<<"#", " ", "N", "e", "s", "t", "e", "d">>))

RECURSIVE TreeOf(_)
TreeOf(names) ==
    IF names = {} THEN EmptyDisk
    ELSE LET n == CHOOSE x \in names : TRUE
         IN  EntryNodes(n) @@ TreeOf(names \ {n})

\* the directories every disk has
BaseTree ==
    [q \in {<<"/">>, <<"/", "v", "a", "u", "l", "t">>, <<"/", "v", "a", "u", "l", "t", "/", "n", "o", "t", "e", "s">>, PostPath, <<"/", "s", "i", "t", "e">>,
            <<"/", "b", "l", "o", "g">>, <<"/", "a", "l", "t">>} |-> Dir]

DestNames == {"absent", "stale", "clash", "nested", "pushed"}

\* what the default destination folder holds before the push
DestTree(n) ==
    CASE n = "absent" -> EmptyDisk
      [] n = "stale" -> (<<"/", "s", "i", "t", "e", "/", "m", "y", "-", "p", "o", "s", "t">> :> Dir)
                        @@ (<<"/", "s", "i", "t", "e", "/", "m", "y", "-", "p", "o", "s", "t", "/", "o", "l", "d", ".", "t", "x", "t">> :> File(<<"O", "L", "D">>))
      [] n = "clash" -> (<<"/", "s", "i", "t", "e", "/", "m", "y", "-", "p", "o", "s", "t">> :> Dir)
                        @@ (<<"/", "s", "i", "t", "e", "/", "m", "y", "-", "p", "o", "s", "t", "/", "d", "a", "t", "a", ".", "b", "i", "n">> :> Dir)
      [] n = "nested" -> (<<"/", "s", "i", "t", "e", "/", "m", "y", "-", "p", "o", "s", "t">> :> Dir)
                         @@ (<<"/", "s", "i", "t", "e", "/", "m", "y", "-", "p", "o", "s", "t", "/", "i", "m", "a", "g", "e", "s">> :> Dir)
                         @@ (<<"/", "s", "i", "t", "e", "/", "m", "y", "-", "p", "o", "s", "t", "/", "i", "m", "a", "g", "e", "s", "/", "a", ".", "p", "n", "g">> :> Dir)
      [] n = "pushed" -> (<<"/", "s", "i", "t", "e", "/", "m", "y", "-", "p", "o", "s", "t">> :> Dir)
                         @@ (<<"/", "s", "i", "t", "e", "/", "m", "y", "-", "p", "o", "s", "t", "/", "i", "m", "a", "g", "e", "s">> :> Dir)
                         @@ (<<"/", "s", "i", "t", "e", "/", "m", "y", "-", "p", "o", "s", "t", "/", "i", "m", "a", "g", "e", "s", "/", "a", ".", "p", "n", "g">> :> File(<<"O", "L", "D">>))

\* the files of the vault folder, or of its directory images, that cannot
\* be read
Locked(d, names) ==
    [q \in DOMAIN d |->
        IF basename(q) \in names /\ startsWith(q, PostPath \o <<"/">>)
        THEN [d[q] EXCEPT !.readable = FALSE] ELSE d[q]]

FolderDraws ==
    {[present |-> {ActiveNote} \cup others, locked |-> locked, dest |-> dest] :
        others \in {s \in SUBSET OtherEntries : Cardinality(s) < MaxEntries},
        locked \in {{}} \cup {{n} : n \in {ActiveNote, <<"p", "o", "s", "t", ".", "m", "d", "x">>,
                                           <<"d", "a", "t", "a", ".", "b", "i", "n">>, <<"a", ".", "p", "n", "g">>}},
        dest \in DestNames}

DiskOf(draw) ==
    Locked(TreeOf(draw.present), draw.locked) @@ DestTree(draw.dest)
    @@ BaseTree

Mapping(name, source, destination) ==
    [name |-> name, sourcePath |-> source, destinationPath |-> destination]

MappingLists ==
    {<<>>,
     <<Mapping(<<"M", "a", "p", "p", "i", "n", "g", " ", "1">>, <<>>, <<>>)>>,
     <<Mapping(<<"M", "a", "p", "p", "i", "n", "g", " ", "1">>, <<"/", "v", "a", "u", "l", "t", "/", "n", "o", "t", "e", "s">>, <<>>)>>,
     <<Mapping(<<"M", "a", "p", "p", "i", "n", "g", " ", "1">>, <<"/", "v", "a", "u", "l", "t", "/", "n", "o", "t", "e", "s">>, <<"/", "b", "l", "o", "g">>)>>,
     <<Mapping(<<"M", "a", "p", "p", "i", "n", "g", " ", "1">>, <<"/", "v", "a", "u", "l", "t", "/", "n", "o", "t", "e", "s">>, <<"/", "n", "o", "m", "a", "p">>)>>,
     <<Mapping(<<"o", "t", "h", "e", "r">>, <<"/", "v", "a", "u", "l", "t", "/", "d", "r", "a", "f", "t", "s">>, <<"/", "a", "l", "t">>),
       Mapping(<<"b", "l", "o", "g">>, <<"/", "v", "a", "u", "l", "t", "/", "n", "o", "t", "e", "s">>, <<"/", "b", "l", "o", "g">>),
       Mapping(<<"l", "a", "t", "e">>, <<"/", "v", "a", "u", "l", "t", "/", "n", "o", "t", "e", "s">>, <<"/", "a", "l", "t">>)>>}

FolderSettings ==
    [pathMappings : MappingLists, basePath : {VaultPath, <<"/", "l", "o", "s", "t">>},
     defaultProjectFolder : {<<"/", "s", "i", "t", "e">>, <<"/", "g", "o", "n", "e">>},
     showHiddenFolders : {FALSE}]

ActiveFiles ==
    {NoFile,
     [present |-> TRUE, path |-> PostFolder \o <<"/">> \o ActiveNote,
      name |-> ActiveNote]}

\* the orders readdirSync may return the names of a directory in
Orders(names) ==
    {f \in [1..Cardinality(names) -> names] :
        \A i, j \in 1..Cardinality(names) : i # j => f[i] # f[j]}

-----------------------------------------------------------------------------

(* wrapWithCustomComponent called on its own, one loop iteration per step *)

WrapIdle ==
    /\ content = <<>> /\ wrapper = <<>> /\ headingWrapper = <<>>
    /\ blocks = <<>> /\ idx = 0 /\ currentBlock = <<>> /\ result = <<>>
    /\ output = <<>>

MdIdle ==
    /\ file = <<>> /\ parentFolderPath = <<>> /\ mdContent = <<>>
    /\ frontMatter = <<>> /\ body = <<>> /\ updatedFrontMatter = <<>>
    /\ written = <<>>

CmdIdle ==
    /\ settings = DEFAULT_SETTINGS /\ activeFile = NoFile
    /\ editorText = <<>> /\ disk = EmptyDisk /\ notices = <<>>
    /\ errorModals = 0 /\ thrown = FALSE
    /\ destinationFolderPath = <<>> /\ completeParentFolderPath = <<>>
    /\ listing = <<>> /\ entryIdx = 0
    /\ currPath = <<>> /\ action = "None" /\ modalOpen = FALSE
    /\ items = <<>> /\ dir = <<>>

InitWrap ==
    /\ pc = "split"
    /\ doc \in WrapDocs
    /\ content = WrapText(doc)
    /\ wrapper = <<"W">>
    /\ headingWrapper = <<"H">>
    /\ blocks = <<>>
    /\ idx = 0
    /\ currentBlock = <<>>
    /\ result = <<>>
    /\ output = <<>>
    /\ MdIdle
    /\ CmdIdle

\* const blocks = content.split(/\n\s*\n/)
Split ==
    /\ pc = "split"
    /\ blocks' = split(content)
    /\ pc' = "loop"
    /\ UNCHANGED <<doc, content, wrapper, headingWrapper, idx, currentBlock,
                   result, output, mdVars, cmdVars>>

LoopState == [result |-> result, currentBlock |-> currentBlock]

\* the loop takes its next block, which is a heading
Heading ==
    /\ pc = "loop"
    /\ idx < Len(blocks)
    /\ BlockKind(trim(blocks[idx + 1])) = "Heading"
    /\ LET st == HeadingBranch(LoopState, trim(blocks[idx + 1]), wrapper,
                               headingWrapper)
       IN  /\ result' = st.result
           /\ currentBlock' = st.currentBlock
    /\ idx' = idx + 1
    /\ UNCHANGED <<pc, doc, content, wrapper, headingWrapper, blocks, output,
                   mdVars, cmdVars>>

\* the loop takes its next block, which holds front matter, an image line
\* or a component tag
Opaque ==
    /\ pc = "loop"
    /\ idx < Len(blocks)
    /\ BlockKind(trim(blocks[idx + 1])) = "Opaque"
    /\ LET st == OpaqueBranch(LoopState, trim(blocks[idx + 1]), wrapper)
       IN  /\ result' = st.result
           /\ currentBlock' = st.currentBlock
    /\ idx' = idx + 1
    /\ UNCHANGED <<pc, doc, content, wrapper, headingWrapper, blocks, output,
                   mdVars, cmdVars>>

\* the loop takes its next block, which is a paragraph
Plain ==
    /\ pc = "loop"
    /\ idx < Len(blocks)
    /\ BlockKind(trim(blocks[idx + 1])) = "Plain"
    /\ LET st == PlainBranch(LoopState, trim(blocks[idx + 1]))
       IN  /\ result' = st.result
           /\ currentBlock' = st.currentBlock
    /\ idx' = idx + 1
    /\ UNCHANGED <<pc, doc, content, wrapper, headingWrapper, blocks, output,
                   mdVars, cmdVars>>

\* push any remaining block; return result.join("\n\n")
Return ==
    /\ pc = "loop"
    /\ idx = Len(blocks)
    /\ result' = PushRemaining(LoopState, wrapper).result
    /\ output' = join(result', <<"\n", "\n">>)
    /\ pc' = "done"
    /\ UNCHANGED <<doc, content, wrapper, headingWrapper, blocks, idx,
                   currentBlock, mdVars, cmdVars>>

NextWrap == Split \/ Heading \/ Opaque \/ Plain \/ Return

SpecWrap == InitWrap /\ [][NextWrap]_vars

-----------------------------------------------------------------------------
(* processMDFile, statement by statement *)

InitPush ==
    /\ pc = "read"
    /\ doc \in SourceDocs
    /\ file = SourceText(doc)
    /\ parentFolderPath \in ParentFolders
    /\ mdContent = <<>>
    /\ frontMatter = <<>>
    /\ body = <<>>
    /\ updatedFrontMatter = <<>>
    /\ written = <<>>
    /\ WrapIdle
    /\ CmdIdle

\* let content = fs.readFileSync(sourceFilePath, "utf8")
ReadFile ==
    /\ pc = "read"
    /\ mdContent' = file
    /\ pc' = "images"
    /\ UNCHANGED <<doc, cmdVars, wrapVars, file, parentFolderPath, frontMatter, body,
                   updatedFrontMatter, written>>

\* content = content.replace(/!\[[^\]]*\]\((images\/[^\)]+)\)/g, ...)
ReplaceImages ==
    /\ pc = "images"
    /\ mdContent' = replaceImagePaths(mdContent,
                                      customURLPrefix(parentFolderPath))
    /\ pc' = "frontmatter"
    /\ UNCHANGED <<doc, cmdVars, wrapVars, file, parentFolderPath, frontMatter, body,
                   updatedFrontMatter, written>>

\* frontMatterMatch, frontMatter, body, updatedFrontMatter = frontMatter
MatchFrontMatter ==
    /\ pc = "frontmatter"
    /\ frontMatter' = frontMatterOf(mdContent)
    /\ body' = bodyOf(mdContent)
    /\ updatedFrontMatter' = frontMatter'
    /\ pc' = "cover"
    /\ UNCHANGED <<doc, cmdVars, wrapVars, file, parentFolderPath, mdContent, written>>

\* the if (coverUrlMatch) ... else ... statement
CoverUrl ==
    /\ pc = "cover"
    /\ updatedFrontMatter' =
          updatedFrontMatterOf(frontMatter, customURLPrefix(parentFolderPath))
    /\ pc' = "combine"
    /\ UNCHANGED <<doc, cmdVars, wrapVars, file, parentFolderPath, mdContent,
                   frontMatter, body, written>>

\* content = `---\n${updatedFrontMatter}\n---\n${body}`
Combine ==
    /\ pc = "combine"
    /\ mdContent' = reassemble(updatedFrontMatter, body)
    /\ pc' = "wrap"
    /\ UNCHANGED <<doc, cmdVars, wrapVars, file, parentFolderPath, frontMatter, body,
                   updatedFrontMatter, written>>

\* content = wrapWithCustomComponent(content)
WrapContent ==
    /\ pc = "wrap"
    /\ mdContent' = wrapWithCustomComponent(mdContent, DefaultWrapper,
                                            DefaultHeadingWrapper)
    /\ pc' = "write"
    /\ UNCHANGED <<doc, cmdVars, wrapVars, file, parentFolderPath, frontMatter, body,
                   updatedFrontMatter, written>>

\* fs.writeFileSync(updatedDestinationPath, content, ...)
WriteFile ==
    /\ pc = "write"
    /\ written' = mdContent
    /\ pc' = "written"
    /\ UNCHANGED <<doc, cmdVars, wrapVars, file, parentFolderPath, mdContent,
                   frontMatter, body, updatedFrontMatter>>

NextPush ==
    \/ ReadFile \/ ReplaceImages \/ MatchFrontMatter \/ CoverUrl
    \/ Combine \/ WrapContent \/ WriteFile

SpecPush == InitPush /\ [][NextPush]_vars

-----------------------------------------------------------------------------

(* Inputs of push-md, pull-md and the PathModal *)

MaxCommands == 1

\* how many directories below the root the modal is followed into
MaxDepth == 2

\* the number of names in an absolute path
Depth(p) == IF p = <<"/">> THEN 0 ELSE Cardinality({k \in 1..Len(p) : p[k] = "/"})

NoteFile == [present |-> TRUE, path |-> <<"n", "o", "t", "e", ".", "m", "d">>, name |-> <<"n", "o", "t", "e", ".", "m", "d">>]

TargetKinds == {"none", "file", "locked", "dir"}

\* what a copy of the note is on disk before the command
TargetTree(path, kind) ==
    CASE kind = "none" -> EmptyDisk
      [] kind = "file" -> (path :> File(<<"O", "L", "D">>))
      [] kind = "locked" -> (path :> [File(<<"O", "L", "D">>) EXCEPT !.readable = FALSE])
      [] kind = "dir" -> (path :> Dir)

HomeTree ==
    [q \in {<<"/">>, <<"/", "r", "o", "o", "t">>, <<"/", "r", "o", "o", "t", "/", "b", "l", "o", "g">>, <<"/", "r", "o", "o", "t", "/", ".", "c", "f", "g">>, <<"/", "s", "i", "t", "e">>}
        |-> Dir]
    @@ (<<"/", "r", "o", "o", "t", "/", "o", "t", "h", "e", "r", ".", "t", "x", "t">> :> File(<<"T", "X", "T">>))

\* target: the copies of the note in /site and /root/blog; home: the one in
\* the home directory, or "lost" when os.homedir() names no directory
ModalDraws == [target : TargetKinds, home : {"none", "file", "lost"}]

ModalDisk(draw) ==
    IF draw.home = "lost"
    THEN TargetTree(<<"/", "s", "i", "t", "e", "/", "n", "o", "t", "e", ".", "m", "d">>, draw.target)
         @@ [q \in {<<"/">>, <<"/", "s", "i", "t", "e">>} |-> Dir]
    ELSE TargetTree(<<"/", "s", "i", "t", "e", "/", "n", "o", "t", "e", ".", "m", "d">>, draw.target)
         @@ TargetTree(<<"/", "r", "o", "o", "t", "/", "b", "l", "o", "g", "/", "n", "o", "t", "e", ".", "m", "d">>, draw.target)
         @@ TargetTree(<<"/", "r", "o", "o", "t", "/", "n", "o", "t", "e", ".", "m", "d">>, draw.home)
         @@ HomeTree

ModalSettings ==
    [pathMappings : {<<>>}, basePath : {<<>>},
     defaultProjectFolder : {<<"/", "s", "i", "t", "e">>, <<"/", "g", "o", "n", "e">>},
     showHiddenFolders : BOOLEAN]

-----------------------------------------------------------------------------
(* The plugin: its commands and its setting tab *)

\* the ids of the commands onload registers
Commands ==
    {"validate-path", "push-md", "push-md-folder", "pull-md",
     "push-custom-path-md", "pull-custom-path"}

\* the commands a behaviour runs: push-md-folder on the disks drawn for it,
\* the other commands on theirs
CommandsInScope ==
    IF doc \in FolderDraws THEN {"push-md-folder"}
    ELSE Commands \ {"push-md-folder"}

\* the settings a behaviour is followed through
SettingsInScope == IF doc \in FolderDraws THEN FolderSettings ELSE ModalSettings

\* the folders another program removes while the modal is shown
Removable == {<<"/", "r", "o", "o", "t", "/", "b", "l", "o", "g">>}

\* what a behaviour has had so far: notices and error modals shown, an error
\* thrown, folders removed by another program
Events ==
    Len(notices) + errorModals + (IF thrown THEN 1 ELSE 0)
    + Cardinality({q \in Removable :
                      /\ doc \in ModalDraws
                      /\ q \in DOMAIN ModalDisk(doc)
                      /\ q \notin DOMAIN disk})

\* the user runs a command of the plugin from the editor: an editorCallback
\* is offered while a markdown view is in front (push-md-folder asks the
\* workspace for the active file by itself)
Invoke ==
    /\ pc = "idle"
    /\ doc \in ModalDraws => activeFile.present
    /\ Events < MaxCommands
    /\ \E c \in CommandsInScope : pc' = c
    /\ UNCHANGED <<doc, wrapVars, mdVars, cmdVars>>

\* the texts typed into the fields of the setting tab
SettingTexts ==
    {<<>>, VaultPath, <<"/", "l", "o", "s", "t">>, <<"/", "s", "i", "t", "e">>, <<"/", "g", "o", "n", "e">>, <<"/", "v", "a", "u", "l", "t", "/", "n", "o", "t", "e", "s">>,
     <<"/", "v", "a", "u", "l", "t", "/", "d", "r", "a", "f", "t", "s">>, <<"/", "b", "l", "o", "g">>, <<"/", "a", "l", "t">>, <<"/", "n", "o", "m", "a", "p">>}

\* a natural number in a template literal: its decimal digits
DecimalDigits == <<"0", "1", "2", "3", "4", "5", "6", "7", "8", "9">>

RECURSIVE toString(_)
toString(n) ==
    IF n < 10 THEN <<DecimalDigits[n + 1]>>
    ELSE toString(n \div 10) \o <<DecimalDigits[(n % 10) + 1]>>

\* `Mapping ${pathMappings.length + 1}`
mappingName(pathMappings) == <<"M", "a", "p", "p", "i", "n", "g", " ">> \o toString(Len(pathMappings) + 1)

\* pathMappings.splice(index, 1), index counted from 1
splice(pathMappings, index) ==
    SubSeq(pathMappings, 1, index - 1)
    \o SubSeq(pathMappings, index + 1, Len(pathMappings))

\* the settings after one handler of MarkdownBloggerSettingTab has run: the
\* onChange of a text field or of the toggle, "Add New Mapping", the onChange
\* of a mapping's source or destination path, a mapping's "Delete"
settingHandlers ==
    {[settings EXCEPT !.basePath = v] : v \in SettingTexts}
    \cup {[settings EXCEPT !.defaultProjectFolder = v] : v \in SettingTexts}
    \cup {[settings EXCEPT !.showHiddenFolders = v] : v \in BOOLEAN}
    \cup {[settings EXCEPT !.pathMappings =
              Append(@, Mapping(mappingName(@), <<>>, <<>>))]}
    \cup {[settings EXCEPT !.pathMappings[index].sourcePath = v] :
            index \in 1..Len(settings.pathMappings), v \in SettingTexts}
    \cup {[settings EXCEPT !.pathMappings[index].destinationPath = v] :
            index \in 1..Len(settings.pathMappings), v \in SettingTexts}
    \cup {[settings EXCEPT !.pathMappings = splice(@, index)] :
            index \in 1..Len(settings.pathMappings)}

\* a setting is changed in the setting tab, between two commands
SettingTab ==
    /\ pc = "idle"
    /\ settings' \in (settingHandlers \cap SettingsInScope) \ {settings}
    /\ UNCHANGED <<pc, doc, wrapVars, mdVars, activeFile, editorText, disk,
                   notices, errorModals, thrown, folderVars, modalVars>>

-----------------------------------------------------------------------------
(* The push-md-folder command, one statement or one entry per step *)

InitFolder ==
    /\ pc = "idle"
    /\ doc \in {d \in FolderDraws :
                    \A n \in d.locked :
                        \/ n \in d.present
                        \/ n = <<"a", ".", "p", "n", "g">> /\ <<"i", "m", "a", "g", "e", "s">> \in d.present}
    /\ settings \in FolderSettings
    /\ activeFile \in ActiveFiles
    /\ editorText = <<>>
    /\ disk = DiskOf(doc)
    /\ notices = <<>>
    /\ errorModals = 0
    /\ thrown = FALSE
    /\ destinationFolderPath = <<>>
    /\ completeParentFolderPath = <<>>
    /\ listing = <<>>
    /\ entryIdx = 0
    /\ currPath = <<>> /\ action = "None" /\ modalOpen = FALSE
    /\ items = <<>> /\ dir = <<>>
    /\ WrapIdle
    /\ MdIdle

\* validatePath throws: the ErrorModal is built from this.app, which the
\* build may or may not give the function
ValidateThrows ==
    /\ errorModals' \in {errorModals, errorModals + 1}
    /\ thrown' = TRUE
    /\ pc' = "returned"

\* catch (err) { new Notice(`Ergror: ${err.message}`) }
Caught(path) ==
    /\ notices' = Append(notices, Notice("Ergror", path))
    /\ pc' = "returned"

\* EntryThrows with the try inside the forEach callback: skip and go on
EntrySkipped(path) ==
    /\ notices' = Append(notices, Notice("Ergror", path))
    /\ entryIdx' = entryIdx + 1
    /\ UNCHANGED pc

\* the forEach callback throws: the forEach ends and the catch runs
EntryThrows(path) == Caught(path) /\ UNCHANGED entryIdx

\* validatePath(projectFolder, false)
ValidateProjectFolder ==
    /\ pc = "push-md-folder"
    /\ IF existsSync(disk, settings.defaultProjectFolder)
       THEN pc' = "active" /\ UNCHANGED <<errorModals, thrown>>
       ELSE ValidateThrows
    /\ UNCHANGED <<doc, wrapVars, mdVars, settings, activeFile, editorText,
                   disk, notices, folderVars, modalVars>>

\* the active file, parentFolderPath, destinationFolderPath,
\* completeParentFolderPath and the notice of its parent
ActiveFilePaths ==
    /\ pc = "active"
    /\ IF ~activeFile.present
       THEN /\ notices' = Append(notices, Notice("No active file found.", <<>>))
            /\ pc' = "returned"
            /\ UNCHANGED <<parentFolderPath, destinationFolderPath,
                           completeParentFolderPath>>
       ELSE /\ parentFolderPath' = dirname(activeFile.path)
            /\ destinationFolderPath' =
                  resolve(settings.defaultProjectFolder,
                          basename(parentFolderPath'))
            /\ completeParentFolderPath' =
                  pathJoin(settings.basePath, parentFolderPath')
            /\ notices' = Append(notices,
                                 Notice("dirname",
                                        dirname(completeParentFolderPath')))
            /\ pc' = "mapping"
    /\ UNCHANGED <<doc, wrapVars, file, mdContent, frontMatter, body,
                   updatedFrontMatter, written, settings, activeFile,
                   editorText, disk, errorModals, thrown, listing, entryIdx,
                   modalVars>>

\* pathMappings.find(...) and if (pathMapping) { ... }
PathMapping ==
    /\ pc = "mapping"
    /\ LET m == findMapping(settings.pathMappings,
                            dirname(completeParentFolderPath))
       IN  IF m = 0
           THEN /\ pc' = "mkdir"
                /\ UNCHANGED <<destinationFolderPath, errorModals, thrown>>
           ELSE IF ~existsSync(disk, settings.pathMappings[m].destinationPath)
           THEN ValidateThrows /\ UNCHANGED destinationFolderPath
           ELSE /\ destinationFolderPath' =
                      resolve(settings.pathMappings[m].destinationPath,
                              basename(parentFolderPath))
                /\ pc' = "mkdir"
                /\ UNCHANGED <<errorModals, thrown>>
    /\ UNCHANGED <<doc, wrapVars, mdVars, settings, activeFile, editorText,
                   disk, notices, completeParentFolderPath, listing, entryIdx,
                   modalVars>>

\* if (!fs.existsSync(destinationFolderPath)) fs.mkdirSync(...)
MakeDestination ==
    /\ pc = "mkdir"
    /\ IF existsSync(disk, destinationFolderPath)
       THEN pc' = "readdir" /\ UNCHANGED <<disk, notices>>
       ELSE IF mkdirThrows(disk, destinationFolderPath)
       THEN Caught(destinationFolderPath) /\ UNCHANGED disk
       ELSE /\ disk' = mkdirSync(disk, destinationFolderPath)
            /\ pc' = "readdir"
            /\ UNCHANGED notices
    /\ UNCHANGED <<doc, wrapVars, mdVars, settings, activeFile, editorText,
                   errorModals, thrown, folderVars, modalVars>>

\* fs.readdirSync(completeParentFolderPath)
ReadDirectory ==
    /\ pc = "readdir"
    /\ IF readdirThrows(disk, completeParentFolderPath)
       THEN Caught(completeParentFolderPath) /\ UNCHANGED listing
       ELSE /\ listing' \in Orders(readdirNames(disk, completeParentFolderPath))
            /\ pc' = "entries"
            /\ UNCHANGED notices
    /\ UNCHANGED <<doc, wrapVars, mdVars, settings, activeFile, editorText,
                   disk, errorModals, thrown, destinationFolderPath,
                   completeParentFolderPath, entryIdx, modalVars>>

\* the entry the forEach callback is called with next
NextEntry == listing[entryIdx + 1]
sourceFilePath == pathJoin(completeParentFolderPath, NextEntry)
destinationFilePath == pathJoin(destinationFolderPath, NextEntry)

EntryFrame ==
    UNCHANGED <<doc, wrapVars, mdVars, settings, activeFile, editorText,
                errorModals, thrown, destinationFolderPath,
                completeParentFolderPath, listing, modalVars>>

\* the entry is a directory: fs.cpSync(..., {recursive: true})
CopyDirectory ==
    /\ pc = "entries"
    /\ entryIdx < Len(listing)
    /\ isDirectory(disk, sourceFilePath)
    /\ IF cpThrows(disk, sourceFilePath, destinationFilePath)
       THEN \E stop \in cpStopped(disk, sourceFilePath,
                                   destinationFilePath) :
               /\ disk' = stop.disk
               /\ EntryThrows(stop.at)
       ELSE /\ disk' = cpSync(disk, sourceFilePath, destinationFilePath)
            /\ entryIdx' = entryIdx + 1
            /\ UNCHANGED <<pc, notices>>
    /\ EntryFrame

\* the entry is a markdown file: processMDFile(...)
ProcessMarkdown ==
    /\ pc = "entries"
    /\ entryIdx < Len(listing)
    /\ ~isDirectory(disk, sourceFilePath)
    /\ isMarkdownName(NextEntry)
    /\ LET target == updatedDestinationPath(destinationFilePath, NextEntry)
       IN  IF readFileThrows(disk, sourceFilePath)
           THEN EntryThrows(sourceFilePath) /\ UNCHANGED disk
           ELSE IF writeFileThrows(disk, target)
           THEN EntryThrows(target) /\ UNCHANGED disk
           ELSE /\ disk' = writeFileSync(disk, target,
                              processedText(readFileSync(disk, sourceFilePath),
                                            parentFolderPath))
                /\ entryIdx' = entryIdx + 1
                /\ UNCHANGED <<pc, notices>>
    /\ EntryFrame

\* any other entry: fs.copyFileSync(sourceFilePath, destinationFilePath)
CopyFile ==
    /\ pc = "entries"
    /\ entryIdx < Len(listing)
    /\ ~isDirectory(disk, sourceFilePath)
    /\ ~isMarkdownName(NextEntry)
    /\ IF copyFileThrows(disk, sourceFilePath, destinationFilePath)
       THEN /\ EntryThrows(IF readFileThrows(disk, sourceFilePath)
                           THEN sourceFilePath ELSE destinationFilePath)
            /\ UNCHANGED disk
       ELSE /\ disk' = copyFileSync(disk, sourceFilePath, destinationFilePath)
            /\ entryIdx' = entryIdx + 1
            /\ UNCHANGED <<pc, notices>>
    /\ EntryFrame

\* new Notice(`Your folder has been pushed! At ${destinationFolderPath}`)
Pushed ==
    /\ pc = "entries"
    /\ entryIdx = Len(listing)
    /\ notices' = Append(notices, Notice("Your folder has been pushed!",
                                         destinationFolderPath))
    /\ pc' = "returned"
    /\ UNCHANGED <<doc, wrapVars, mdVars, settings, activeFile, editorText,
                   disk, errorModals, thrown, folderVars, modalVars>>

NextFolder ==
    \/ Invoke \/ SettingTab
    \/ ValidateProjectFolder \/ ActiveFilePaths \/ PathMapping
    \/ MakeDestination \/ ReadDirectory
    \/ CopyDirectory \/ ProcessMarkdown \/ CopyFile \/ Pushed

SpecFolder == InitFolder /\ [][NextFolder]_vars

-----------------------------------------------------------------------------
(* The commands push-md, pull-md, push-custom-path-md, pull-custom-path *)

InitModal ==
    /\ pc = "idle"
    /\ doc \in ModalDraws
    /\ settings \in ModalSettings
    /\ activeFile = NoteFile
    /\ editorText = <<"D", "r", "a", "f", "t">>
    /\ disk = ModalDisk(doc)
    /\ notices = <<>>
    /\ errorModals = 0
    /\ thrown = FALSE
    /\ destinationFolderPath = <<>>
    /\ completeParentFolderPath = <<>>
    /\ listing = <<>>
    /\ entryIdx = 0
    /\ currPath = <<>> /\ action = "None" /\ modalOpen = FALSE
    /\ items = <<>> /\ dir = <<>>
    /\ WrapIdle
    /\ MdIdle

\* new ErrorModal(this.app).open()
OpenErrorModal == errorModals' = errorModals + 1

\* a push that writes the text with a newline added at the end
pushToWithNewline(path) ==
    IF writeFileThrows(disk, path)
    THEN /\ notices' = Append(notices, Notice("error", path))
         /\ UNCHANGED disk
    ELSE /\ disk' = writeFileSync(disk, path, editorText \o <<"\n">>)
         /\ notices' = Append(notices,
                              Notice("Your file has been pushed!", path))

\* try { fs.writeFileSync(path, text); new Notice(pushed) } catch { new Notice }
pushTo(path) ==
    IF writeFileThrows(disk, path)
    THEN /\ notices' = Append(notices, Notice("error", path))
         /\ UNCHANGED disk
    ELSE /\ disk' = writeFileSync(disk, path, editorText)
         /\ notices' = Append(notices,
                              Notice("Your file has been pushed!", path))

\* try { file = fs.readFileSync(path); setValue(file); new Notice(pulled) }
\* catch { new Notice }
pullFrom(path) ==
    IF readFileThrows(disk, path)
    THEN /\ notices' = Append(notices, Notice("error", path))
         /\ UNCHANGED editorText
    ELSE /\ editorText' = readFileSync(disk, path)
         /\ notices' = Append(notices,
                              Notice("Your file has been pulled!", path))

\* validate-path editorCallback: validatePath(projectFolder), the notice
\* shown by default; when it throws, the ErrorModal is built from this.app,
\* which the build may or may not give the function
ValidatePath ==
    /\ pc = "validate-path"
    /\ IF existsSync(disk, settings.defaultProjectFolder)
       THEN /\ notices' = Append(notices,
                                 Notice("Valid path",
                                        settings.defaultProjectFolder))
            /\ UNCHANGED <<errorModals, thrown>>
       ELSE /\ errorModals' \in {errorModals, errorModals + 1}
            /\ thrown' = TRUE
            /\ UNCHANGED notices
    /\ pc' = "idle"
    /\ UNCHANGED <<doc, wrapVars, mdVars, settings, activeFile, editorText,
                   disk, folderVars, modalVars>>

\* push-md editorCallback
PushMd ==
    /\ pc = "push-md"
    /\ IF ~existsSync(disk, settings.defaultProjectFolder)
       THEN OpenErrorModal /\ UNCHANGED <<disk, notices>>
       ELSE /\ pushTo(resolve(settings.defaultProjectFolder, activeFile.name))
            /\ UNCHANGED errorModals
    /\ pc' = "idle"
    /\ UNCHANGED <<doc, wrapVars, mdVars, settings, activeFile, editorText,
                   thrown, folderVars, modalVars>>

\* pull-md editorCallback
PullMd ==
    /\ pc = "pull-md"
    /\ LET projectBlogPath ==
              resolve(settings.defaultProjectFolder, activeFile.name)
       IN  IF ~existsSync(disk, settings.defaultProjectFolder)
           THEN OpenErrorModal /\ UNCHANGED <<editorText, notices>>
           ELSE IF existsSync(disk, projectBlogPath)
           THEN pullFrom(projectBlogPath) /\ UNCHANGED errorModals
           ELSE /\ notices' = Append(notices,
                                     Notice("Oops",
                                            settings.defaultProjectFolder))
                /\ UNCHANGED <<editorText, errorModals>>
    /\ pc' = "idle"
    /\ UNCHANGED <<doc, wrapVars, mdVars, settings, activeFile, disk, thrown,
                   folderVars, modalVars>>

\* this.open(), the method PathModal inherits from Obsidian's
\* FuzzySuggestModal; its code is not part of the plugin. It asks getItems()
\* for the list and puts the modal on screen with it. When readdirSync
\* throws in getItems the error leaves open() and the callback: no list is
\* returned, and whether the modal is on screen by then is for Obsidian to
\* decide, so both outcomes are kept
openModal(at) ==
    IF readdirThrows(disk, at)
    THEN /\ thrown' = TRUE
         /\ modalOpen' \in BOOLEAN
         /\ pc' = IF modalOpen' THEN "modal" ELSE "idle"
         /\ UNCHANGED items
    ELSE /\ items' \in getItems(disk, at, activeFile,
                                settings.showHiddenFolders)
         /\ modalOpen' = TRUE
         /\ pc' = "modal"
         /\ UNCHANGED thrown

\* push-custom-path-md, pull-custom-path: new PathModal(...).open()
OpenPathModal ==
    /\ pc \in {"push-custom-path-md", "pull-custom-path"}
    /\ currPath' = HomeDir
    /\ action' = IF pc = "push-custom-path-md" THEN "Push" ELSE "Pull"
    /\ openModal(currPath')
    /\ UNCHANGED <<doc, wrapVars, mdVars, settings, activeFile, editorText,
                   disk, notices, errorModals, folderVars, dir>>

\* the item list as a set
Offered == {items[k] : k \in 1..Len(items)}

\* the two branches of onChooseItem that end the modal
pushOrPull(filePath) ==
    IF action = "Push" THEN pushTo(filePath) /\ UNCHANGED editorText
    ELSE IF action = "Pull" THEN pullFrom(filePath) /\ UNCHANGED disk
    ELSE UNCHANGED <<disk, editorText, notices>>

\* onChooseItem("Select")
ChooseSelect ==
    /\ pc = "modal"
    /\ modalOpen
    /\ dir' = <<"S", "e", "l", "e", "c", "t">>
    /\ dir' \in Offered
    /\ IF activeFile.present
       THEN IF ~existsSync(disk, resolve(currPath, <<>>))
            THEN OpenErrorModal /\ UNCHANGED <<disk, editorText, notices>>
            ELSE /\ pushOrPull(resolve(currPath, activeFile.name))
                 /\ UNCHANGED errorModals
       ELSE UNCHANGED <<disk, editorText, notices, errorModals>>
    /\ modalOpen' = FALSE
    /\ pc' = "idle"
    /\ UNCHANGED <<doc, wrapVars, mdVars, settings, activeFile, thrown,
                   folderVars, currPath, action, items>>

\* onChooseItem(view.file.name)
ChooseFile ==
    /\ pc = "modal"
    /\ modalOpen
    /\ activeFile.present
    /\ dir' = activeFile.name
    /\ dir' \in Offered
    /\ dir' # <<"S", "e", "l", "e", "c", "t">>
    /\ pushOrPull(resolve(currPath, activeFile.name))
    /\ modalOpen' = FALSE
    /\ pc' = "idle"
    /\ UNCHANGED <<doc, wrapVars, mdVars, settings, activeFile, errorModals,
                   thrown, folderVars, currPath, action, items>>

\* onChooseItem(dir) for any other item: change directory and open again
ChooseDirectory ==
    /\ pc = "modal"
    /\ modalOpen
    /\ dir' \in Offered
    /\ dir' # <<"S", "e", "l", "e", "c", "t">>
    /\ ~(activeFile.present /\ dir' = activeFile.name)
    /\ currPath' = normalize(pathJoin(currPath, dir'))
    /\ Depth(currPath') <= MaxDepth
    /\ openModal(currPath')
    /\ UNCHANGED <<doc, wrapVars, mdVars, settings, activeFile, editorText,
                   disk, notices, errorModals, folderVars, action>>

\* while the modal is shown the markdown view is closed: onChooseItem asks
\* the workspace for the view again and finds none. A behaviour has one
\* change around the modal, before anything else has happened in it
CloseView ==
    /\ pc = "modal"
    /\ modalOpen
    /\ Events = 0
    /\ activeFile.present
    /\ activeFile' = NoFile
    /\ UNCHANGED <<pc, doc, wrapVars, mdVars, settings, editorText, disk,
                   notices, errorModals, thrown, folderVars, modalVars>>

\* while the modal is shown a folder on show is removed by another program:
\* the next open() reads the directory again
RemoveFolder ==
    /\ pc = "modal"
    /\ modalOpen
    /\ Events = 0
    /\ activeFile.present
    /\ \E n \in Offered \ {<<".", ".">>, <<"S", "e", "l", "e", "c", "t">>} :
          /\ resolve(currPath, n) \in Removable
          /\ isDirectory(disk, resolve(currPath, n))
          /\ disk' = [q \in DOMAIN disk \ Under(disk, resolve(currPath, n))
                         |-> disk[q]]
    /\ UNCHANGED <<pc, doc, wrapVars, mdVars, settings, activeFile,
                   editorText, notices, errorModals, thrown, folderVars,
                   modalVars>>

NextModal ==
    \/ Invoke \/ SettingTab \/ ValidatePath \/ PushMd \/ PullMd \/ OpenPathModal
    \/ ChooseSelect \/ ChooseFile \/ ChooseDirectory
    \/ CloseView \/ RemoveFolder

SpecModal == InitModal /\ [][NextModal]_vars

-----------------------------------------------------------------------------

(* What the pools are by construction *)

KindOf ==
    [n \in BlockNames |->
        IF n \in {"P1", "P2"} THEN "Plain"
        ELSE IF n \in {"H1", "H2", "HI", "HC", "HF"} THEN "Heading"
        ELSE "Opaque"]

\* the heading line of a heading block, hashes and text one space apart
HeadingLine ==
    [n \in {"H1", "H2", "HI", "HC", "HF"} |->
        CASE n = "H1" -> <<"#", " ", "T", "i", "t", "l", "e">>
          [] n = "H2" -> <<"#", "#", " ", "S", "u", "b">>
          [] n = "HI" -> <<"#", " ", "P", "i", "c">>
          [] n = "HC" -> <<"#", "#", " ", "T", "i", "p", " ", "<", "N", "o", "t", "e", "/", ">">>
          [] n = "HF" -> <<"#", " ", "M", "e", "t", "a">>]

\* the maximal runs of consecutive Plain blocks of d, in order
RECURSIVE PlainRuns(_)
PlainRuns(d) ==
    IF Len(d) = 0 THEN <<>>
    ELSE IF KindOf[d[1]] # "Plain" THEN PlainRuns(Tail(d))
    ELSE LET stop == First(1, Len(d), LAMBDA j : KindOf[d[j]] # "Plain")
             n == IF stop = 0 THEN Len(d) ELSE stop - 1
         IN  <<SubSeq(d, 1, n)>> \o PlainRuns(SubSeq(d, n + 1, Len(d)))

\* the maximal run of Plain blocks of d that ends at index k
RunEndingAt(d, k) ==
    LET stop == Last(1, k, LAMBDA j : KindOf[d[j]] # "Plain")
    IN  SubSeq(d, stop + 1, k)

GroupUnit(run) == Wrapped(wrapper, join(TextsOf(run), <<"\n", "\n">>))

HeadingUnit(n) == Wrapped(headingWrapper, HeadingLine[n])

IsGroupUnit(u) == startsWith(u, <<"<">> \o wrapper \o <<">", "\n">>)

IsHeadingUnit(u) == startsWith(u, <<"<">> \o headingWrapper \o <<">", "\n">>)

IsHeadingName(n) == KindOf[n] = "Heading"

LinesOf(s) == splitChar(s, "\n")

IsNotSpace(c) == ~IsSpace(c)

NonSpace(s) == SelectSeq(s, IsNotSpace)

-----------------------------------------------------------------------------
(* Claims about wrapWithCustomComponent, under SpecWrap *)

IsNotTagLine(l) ==
    l \notin {<<"<">> \o t \o <<">">> : t \in {wrapper, headingWrapper}}
             \cup {<<"<", "/">> \o t \o <<">">> : t \in {wrapper, headingWrapper}}

StripTagLines(s) == join(SelectSeq(LinesOf(s), IsNotTagLine), <<"\n">>)

\* C1: completeness. The returned text without its wrapper tag lines holds
\* exactly the non-white-space content of the input, in order: no line of any
\* block is dropped or duplicated.
Completeness ==
    pc = "done" => NonSpace(StripTagLines(output)) = NonSpace(content)

Scenario1 == <<"<", "H", ">", "\n", "#", " ", "T", "i", "t", "l", "e", "\n", "<", "/", "H", ">", "\n", "\n", "<", "W", ">", "\n", "S", "o", "m", "e", " ", "t", "e", "x", "t", ".", "\n", "\n", "M", "o", "r", "e", " ", "t", "e", "x", "t", ".", "\n", "<", "/", "W", ">">>

\* C2: grouping. The group units of the result are, in order, the maximal
\* runs of consecutive Plain blocks, each run as one unit that joins its
\* blocks with one blank line; the heading units are, in order, the heading
\* lines of the Heading blocks, each as a unit of its own; and the text
\* "# Title\n\nSome text.\n\nMore text." with tags W, H gives Scenario1.
Grouping ==
    pc = "done" =>
        /\ SelectSeq(result, IsGroupUnit) =
              [k \in 1..Len(PlainRuns(doc.blocks)) |->
                  GroupUnit(PlainRuns(doc.blocks)[k])]
        /\ SelectSeq(result, IsHeadingUnit) =
              LET hs == SelectSeq(doc.blocks, IsHeadingName)
              IN  [k \in 1..Len(hs) |-> HeadingUnit(hs[k])]
        /\ doc.blocks = <<"H1", "P1", "P2">> /\ doc.layout = "tight"
              => output = Scenario1

GroupingWitness ==
    /\ pc = "done"
    /\ doc.blocks = <<"H1", "P1", "P2">>
    /\ content = <<"#", " ", "T", "i", "t", "l", "e", "\n", "\n", "S", "o", "m", "e", " ", "t", "e", "x", "t", ".", "\n", "\n", "M", "o", "r", "e", " ", "t", "e", "x", "t", ".">>
    /\ Len(result) = 2
    /\ output = Scenario1

\* the block the loop has just consumed matches the heading pattern and
\* also one of the three patterns of the blocks left untouched
HeadingAndOpaque ==
    /\ pc = "loop"
    /\ idx >= 1
    /\ headingRegex(trim(blocks[idx])).index # 0
    /\ \/ frontMatterRegex(trim(blocks[idx]))
       \/ imageRegex(trim(blocks[idx]))
       \/ componentRegex(trim(blocks[idx]))

\* C4: classification priority. A block that matches the heading pattern and
\* also holds an image line, a front matter fence or a component tag is
\* emitted inside the heading tag: it is neither emitted bare nor added to
\* the pending paragraphs.
HeadingPriority ==
    HeadingAndOpaque =>
        /\ Len(result) >= 1
        /\ result[Len(result)] =
              headingTag(headingRegex(trim(blocks[idx])), headingWrapper)
        /\ IsHeadingUnit(result[Len(result)])
        /\ result[Len(result)] # trim(blocks[idx])
        /\ currentBlock = <<>>

HeadingPriorityWitness ==
    /\ HeadingAndOpaque
    /\ idx <= Len(doc.blocks)
    /\ doc.blocks[idx] = "HI"
    /\ imageRegex(trim(blocks[idx]))
    /\ result[Len(result)] = <<"<", "H", ">", "\n", "#", " ", "P", "i", "c", "\n", "<", "/", "H", ">">>

\* the block the loop has just consumed is Opaque by construction
JustOpaque ==
    /\ pc = "loop"
    /\ idx >= 1
    /\ idx <= Len(doc.blocks)
    /\ KindOf[doc.blocks[idx]] = "Opaque"

\* C5: opaque pass-through. An Opaque block is emitted as its trimmed text,
\* as a unit of its own; the paragraphs pending before it are emitted as one
\* group unit just before it and nothing is left pending; a text that is one
\* image line is returned as that line.
OpaquePassThrough ==
    /\ JustOpaque =>
        /\ Len(result) >= 1
        /\ result[Len(result)] = BlockText[doc.blocks[idx]]
        /\ currentBlock = <<>>
        /\ idx >= 2 /\ KindOf[doc.blocks[idx - 1]] = "Plain" =>
              /\ Len(result) >= 2
              /\ result[Len(result) - 1] =
                    GroupUnit(RunEndingAt(doc.blocks, idx - 1))
    /\ pc = "done" /\ doc.blocks = <<"IM">> => output = <<"!", "[", "a", "]", "(", "b", ".", "p", "n", "g", ")">>

OpaquePassThroughWitness ==
    /\ JustOpaque
    /\ idx = 2
    /\ doc.blocks[1] = "P1"
    /\ doc.blocks[2] = "IM"
    /\ result = <<<<"<", "W", ">", "\n", "S", "o", "m", "e", " ", "t", "e", "x", "t", ".", "\n", "<", "/", "W", ">">>, <<"!", "[", "a", "]", "(", "b", ".", "p", "n", "g", ")">>>>

-----------------------------------------------------------------------------
\* the units a text is to give, in document order: one per Heading block,
\* one per Opaque block, one per maximal run of Plain blocks
RECURSIVE ExpectedUnits(_)
ExpectedUnits(d) ==
    IF Len(d) = 0 THEN <<>>
    ELSE IF KindOf[d[1]] = "Heading"
    THEN <<HeadingUnit(d[1])>> \o ExpectedUnits(Tail(d))
    ELSE IF KindOf[d[1]] = "Opaque"
    THEN <<BlockText[d[1]]>> \o ExpectedUnits(Tail(d))
    ELSE LET stop == First(1, Len(d), LAMBDA j : KindOf[d[j]] # "Plain")
             n == IF stop = 0 THEN Len(d) ELSE stop - 1
         IN  <<GroupUnit(SubSeq(d, 1, n))>>
             \o ExpectedUnits(SubSeq(d, n + 1, Len(d)))

UnitCount(d) ==
    Cardinality({k \in 1..Len(d) : KindOf[d[k]] # "Plain"})
    + Len(PlainRuns(d))

\* the block the loop has just consumed is a Heading or an Opaque block
JustEmitted ==
    /\ pc = "loop"
    /\ idx >= 1
    /\ idx <= Len(doc.blocks)
    /\ KindOf[doc.blocks[idx]] # "Plain"

\* the units of the returned text: their order, their number, the blank
\* line between them
UnitsInOrder ==
    pc = "done" =>
        /\ result = ExpectedUnits(doc.blocks)
        /\ Len(result) = UnitCount(doc.blocks)
        /\ output = join(ExpectedUnits(doc.blocks), <<"\n", "\n">>)
        /\ (\A k \in 1..Len(doc.blocks) : KindOf[doc.blocks[k]] # "Plain")
              => \A k \in 1..Len(result) : ~IsGroupUnit(result[k])
        /\ doc.blocks = <<>> => output = <<>>

\* C15: the pending run is empty after every Heading or Opaque emission
\* and after the flush at the end of the input; the units are in
\* document order, one blank line apart, and as many as the Heading blocks,
\* the Opaque blocks and the maximal runs of Plain blocks together.
WrapperStateMachine ==
    /\ JustEmitted => currentBlock = <<>>
    /\ pc = "done" => currentBlock = <<>>
    /\ UnitsInOrder

\* C16: idempotence of wrapping. Wrapping the returned text again, with the
\* same tags, returns it unchanged: no unit is wrapped twice and no closing
\* tag is duplicated.
WrapIdempotent ==
    pc = "done" =>
        wrapWithCustomComponent(output, wrapper, headingWrapper) = output

(* Claims about processMDFile, under SpecPush *)

\* the URL prefix each parent folder stands for
UrlPrefix ==
    IF parentFolderPath = <<"p", "r", "o", "j">> THEN <<"/", "w", "o", "r", "k", "/", "p", "r", "o", "j", "/">>
    ELSE <<"/", "w", "o", "r", "k", "/", "m", "y", "-", "p", "o", "s", "t", "/">>

HeadLines == doc.head.lines

\* the source has a front matter of at least one line, closed by a line ---
WellFenced == doc.head.fenced /\ doc.head.fence = "ok" /\ Len(HeadLines) > 0

AfterCoverUrl == pc \in {"combine", "wrap", "write", "written"}

IsCoverLine(l) == startsWith(l, <<"c", "o", "v", "e", "r", "_", "u", "r", "l", ":">>)

HasCoverLine(fm) == \E k \in 1..Len(LinesOf(fm)) : IsCoverLine(LinesOf(fm)[k])

\* the lines between a first line --- and the next line that is exactly ---
FencedLines(s) ==
    LET ls == LinesOf(s)
        k == First(2, Len(ls), LAMBDA j : ls[j] = <<"-", "-", "-">>)
    IN  IF ls[1] = <<"-", "-", "-">> /\ k # 0 THEN SubSeq(ls, 2, k - 1) ELSE <<>>

OpenTagLines ==
    {<<"<">> \o t \o <<">">> : t \in {DefaultWrapper, DefaultHeadingWrapper}}

CloseTagLines ==
    {<<"<", "/">> \o t \o <<">">> : t \in {DefaultWrapper, DefaultHeadingWrapper}}

\* line k of ls lies between an opening tag line and its closing tag line
Nested(ls, k) ==
    \E o \in 1..(k - 1) :
        /\ ls[o] \in OpenTagLines
        /\ \A c \in (o + 1)..(k - 1) : ls[c] \notin CloseTagLines

IsNotEmpty(l) == Len(l) > 0

\* the fence lines and key lines of the reassembled front matter block
FrontMatterBlockLines ==
    SelectSeq(LinesOf(<<"-", "-", "-", "\n">> \o updatedFrontMatter \o <<"\n", "-", "-", "-">>), IsNotEmpty)

\* C3: in the text processMDFile writes, every line of the reassembled front
\* matter block (both fences, every key line) is present and none of them
\* lies inside a ContentWrapper or HeadingWrapper.
FrontMatterKeptBare ==
    pc = "written" =>
        \A n \in 1..Len(FrontMatterBlockLines) :
            \E k \in 1..Len(LinesOf(written)) :
                /\ LinesOf(written)[k] = FrontMatterBlockLines[n]
                /\ ~Nested(LinesOf(written), k)

\* an image segment whose target begins with images/ gets the prefix in
\* front of its target and nothing else changes
RewrittenSegment(seg) ==
    IF seg.kind = "image" /\ startsWith(seg.target, <<"i", "m", "a", "g", "e", "s", "/">>)
    THEN ImageMarkup(seg.alt, UrlPrefix \o seg.target)
    ELSE SegmentText(seg)

RECURSIVE RewrittenSegments(_)
RewrittenSegments(segs) ==
    IF Len(segs) = 0 THEN <<>>
    ELSE RewrittenSegment(Head(segs)) \o RewrittenSegments(Tail(segs))

RewrittenBody(b) ==
    join([k \in 1..Len(b) |-> RewrittenSegments(BodySegments[b[k]])],
         <<"\n", "\n">>)

\* C6: inline image rewriting. Every ![alt](images/rest) becomes
\* ![alt](urlPrefix + images/rest) with the alt text and all surrounding text
\* unchanged, also when the alt text holds the string images/rest; other
\* image references are left alone.
ImagePathsRewritten ==
    pc = "frontmatter" =>
        mdContent = HeadText(doc.head) \o RewrittenBody(doc.body)

WikiLines == {"wiki", "wikidir", "wikidollar"}

WikiTarget ==
    [n \in WikiLines |->
        CASE n = "wiki" -> <<"c", "o", "v", "e", "r", ".", "p", "n", "g">>
          [] n = "wikidir" -> <<"a", "s", "s", "e", "t", "s", "/", "c", ".", "p", "n", "g">>
          [] n = "wikidollar" -> <<"a", "$", "$", "b", ".", "p", "n", "g">>]

\* a front matter line after the rewrite: the wiki-link is replaced by the
\* prefixed target, unquoted and without brackets
RewrittenLine(n) ==
    IF n \in WikiLines THEN <<"c", "o", "v", "e", "r", "_", "u", "r", "l", ":", " ">> \o UrlPrefix \o WikiTarget[n]
    ELSE LineText[n]

HasWikiLine == \E k \in 1..Len(HeadLines) : HeadLines[k] \in WikiLines

\* C7: a front matter line cover_url: "[[X]]" is replaced by
\* cover_url: <urlPrefix joined with X>, and every other line of the front
\* matter is unchanged.
WikiLinkCoverRewritten ==
    AfterCoverUrl /\ WellFenced /\ HasWikiLine =>
        /\ frontMatter =
              join([k \in 1..Len(HeadLines) |-> LineText[HeadLines[k]]],
                   <<"\n">>)
        /\ updatedFrontMatter =
              join([k \in 1..Len(HeadLines) |-> RewrittenLine(HeadLines[k])],
                   <<"\n">>)

AbsoluteLines == {"abs", "http"}

CoverLineCount(fm) ==
    Cardinality({k \in 1..Len(LinesOf(fm)) : IsCoverLine(LinesOf(fm)[k])})

\* the front matter a second run of the rewrite would produce from the
\* reassembled text
SecondRewrite ==
    LET prefix == customURLPrefix(parentFolderPath)
    IN  updatedFrontMatterOf(
            frontMatterOf(replaceImagePaths(mdContent, prefix)), prefix)

\* C8: a cover_url whose value starts with / or http is left alone: its line
\* in the rewritten front matter is the source's, it stays the only cover_url
\* line, and rewriting the reassembled text again leaves it the same.
AbsoluteCoverUntouched ==
    \A k \in 1..Len(HeadLines) :
        WellFenced /\ HeadLines[k] \in AbsoluteLines =>
            /\ AfterCoverUrl =>
                /\ LinesOf(updatedFrontMatter)[k] = LineText[HeadLines[k]]
                /\ CoverLineCount(updatedFrontMatter) = 1
            /\ pc = "wrap" =>
                /\ Len(LinesOf(SecondRewrite)) >= k
                /\ LinesOf(SecondRewrite)[k] = LineText[HeadLines[k]]
                /\ CoverLineCount(SecondRewrite) = 1

AbsoluteCoverUntouchedWitness ==
    /\ pc = "wrap"
    /\ HeadLines = <<"title", "http">>
    /\ updatedFrontMatter = <<"t", "i", "t", "l", "e", ":", " ", "T", "\n", "c", "o", "v", "e", "r", "_", "u", "r", "l", ":", " ", " ", "h", "t", "t", "p", ":", "/", "/", "x", "/", "c", ".", "p", "n", "g">>
    /\ SecondRewrite = updatedFrontMatter

\* C9: when the detected front matter has no line that begins with
\* cover_url:, the updated front matter is the front matter followed by
\* "\ncover_url: "; so the updated front matter, and the front matter block
\* of the reassembled text, always hold a line with the key cover_url.
CoverUrlAlwaysPresent ==
    /\ AfterCoverUrl =>
        /\ ~HasCoverLine(frontMatter) =>
              updatedFrontMatter = frontMatter \o <<"\n", "c", "o", "v", "e", "r", "_", "u", "r", "l", ":", " ">>
        /\ HasCoverLine(updatedFrontMatter)
    /\ pc = "wrap" =>
        \E k \in 1..Len(FencedLines(mdContent)) :
            IsCoverLine(FencedLines(mdContent)[k])

\* C10: front matter is detected if and only if the text begins with ---
\* and a newline and a later line is exactly ---; the front matter is the
\* text between the two fences and the body everything after the closing
\* fence. A later line ---- or ---x closes nothing; a line --- right after
\* the opening fence does.
FrontMatterDetection ==
    pc = "cover" =>
        LET ls == LinesOf(mdContent)
            k == First(2, Len(ls), LAMBDA j : ls[j] = <<"-", "-", "-">>)
        IN  IF ls[1] = <<"-", "-", "-">> /\ k # 0
            THEN /\ frontMatter = join(SubSeq(ls, 2, k - 1), <<"\n">>)
                 /\ body = IF k = Len(ls) THEN <<>>
                           ELSE <<"\n">> \o join(SubSeq(ls, k + 1, Len(ls)),
                                                 <<"\n">>)
            ELSE /\ frontMatter = <<>>
                 /\ body = mdContent

\* the source has no front matter: it does not begin with a fence, or its
\* opening fence is never closed
NoFrontMatter == ~doc.head.fenced \/ doc.head.fence = "open"

EmptyFrontMatterBlock == <<"-", "-", "-", "\n", "\n", "c", "o", "v", "e", "r", "_", "u", "r", "l", ":", " ", "\n", "-", "-", "-", "\n">>

HasDup(b) == \E k \in 1..Len(b) : b[k] = "dup"

\* the source text with the prefix put in front of its images/ targets
RewrittenSource ==
    IF HasDup(doc.body) THEN replaceImagePaths(file, UrlPrefix)
    ELSE HeadText(doc.head) \o RewrittenBody(doc.body)

\* C11: graceful degradation. For a source without front matter the empty
\* front matter is detected, the body is the whole text, and the reassembled
\* text is "---\n\ncover_url: \n---\n" followed by the whole source text
\* with its image paths rewritten; the function then goes on to its write.
GracefulDegradation ==
    NoFrontMatter =>
        /\ pc \in {"cover", "combine", "wrap"} =>
              frontMatter = <<>> /\ body = RewrittenSource
        /\ pc = "wrap" => mdContent = EmptyFrontMatterBlock \o RewrittenSource
        /\ pc = "written" => Len(written) > 0

GracefulDegradationWitness ==
    /\ pc = "wrap"
    /\ doc.head.fenced /\ doc.head.fence = "open"
    /\ doc.body = <<"text", "img">>
    /\ parentFolderPath = <<"p", "r", "o", "j">>
    /\ mdContent =
          <<"-", "-", "-", "\n", "\n", "c", "o", "v", "e", "r", "_", "u", "r", "l", ":", " ", "\n", "-", "-", "-", "\n", "-", "-", "-", "\n", "t", "i", "t", "l", "e", ":", " ", "T", "\n", "H", "e", "l", "l", "o", "\n", "\n", "!", "[", "c", "o", "v", "e", "r", "]", "(", "/", "w", "o", "r", "k", "/", "p", "r", "o", "j", "/", "i", "m", "a", "g", "e", "s", "/", "a", ".", "p", "n", "g", ")">>

\* cover_url lines whose value is relative and not in double quotes
UnquotedLines == {"bare", "unq", "empty"}

UnquotedValue ==
    [n \in {"bare", "unq"} |->
        IF n = "bare" THEN <<"c", "o", "v", "e", "r", ".", "p", "n", "g">> ELSE <<"[", "[", "c", "o", "v", "e", "r", ".", "p", "n", "g", "]", "]">>]

\* C17: a single cover_url line whose value starts with neither http nor /
\* and is not in double quotes is detected, and its value taken as relative
\* (joined to the URL prefix), but the updated front matter is the front
\* matter byte for byte: the line is not rewritten and none is appended.
UnquotedCoverUnchanged ==
    \A k \in 1..Len(HeadLines) :
        AfterCoverUrl /\ WellFenced /\ HeadLines[k] \in UnquotedLines =>
            /\ frontMatter =
                  join([j \in 1..Len(HeadLines) |-> LineText[HeadLines[j]]],
                       <<"\n">>)
            /\ coverUrlMatch(frontMatter).found
            /\ HeadLines[k] \in {"bare", "unq"} =>
                  coverUrlOf(coverUrlMatch(frontMatter).group, UrlPrefix) =
                      UrlPrefix \o UnquotedValue[HeadLines[k]]
            /\ updatedFrontMatter = frontMatter
            /\ CoverLineCount(updatedFrontMatter) = 1

UnquotedCoverUnchangedWitness ==
    /\ pc = "written"
    /\ HeadLines = <<"title", "unq">>
    /\ parentFolderPath = <<"p", "r", "o", "j">>
    /\ coverUrlOf(coverUrlMatch(frontMatter).group, UrlPrefix) =
          <<"/", "w", "o", "r", "k", "/", "p", "r", "o", "j", "/", "[", "[", "c", "o", "v", "e", "r", ".", "p", "n", "g", "]", "]">>
    /\ updatedFrontMatter = <<"t", "i", "t", "l", "e", ":", " ", "T", "\n", "c", "o", "v", "e", "r", "_", "u", "r", "l", ":", " ", "[", "[", "c", "o", "v", "e", "r", ".", "p", "n", "g", "]", "]">>

-----------------------------------------------------------------------------
(* Claims about push-md-folder, under SpecFolder *)

\* the text processMDFile is to write for index.md of the folder my-post
IndexMdx ==
    <<"-", "-", "-", "\n", "c", "o", "v", "e", "r", "_", "u", "r", "l", ":", " ", "/", "w", "o", "r", "k", "/", "m", "y", "-", "p", "o", "s", "t", "/", "c", "o", "v", "e", "r", ".", "p", "n", "g", "\n", "-", "-", "-", "\n", "\n", "<", "H", "e", "a", "d", "i", "n", "g", "W", "r", "a", "p", "p", "e", "r", ">", "\n", "#", " ", "T", "i", "t", "l", "e", "\n", "<", "/", "H", "e", "a", "d", "i", "n", "g", "W", "r", "a", "p", "p", "e", "r", ">", "\n", "\n", "!", "[", "c", "o", "v", "e", "r", "]", "(", "/", "w", "o", "r", "k", "/", "m", "y", "-", "p", "o", "s", "t", "/", "i", "m", "a", "g", "e", "s", "/", "a", ".", "p", "n", "g", ")">>

InDest(name) == destinationFolderPath \o <<"/">> \o name

\* the destination after one entry of the vault folder is pushed onto d
PushedEntry(d, name) ==
    CASE name = <<"i", "m", "a", "g", "e", "s">> ->
            (InDest(<<"i", "m", "a", "g", "e", "s">>) :> Dir)
            @@ (InDest(<<"i", "m", "a", "g", "e", "s", "/", "a", ".", "p", "n", "g">>) :> File(<<"P", "N", "G">>))
            @@ (InDest(<<"i", "m", "a", "g", "e", "s", "/", "n", ".", "m", "d">>) :> File(<<"#", " ", "N", "e", "s", "t", "e", "d">>))
            @@ d
      [] name = <<"i", "n", "d", "e", "x", ".", "m", "d">> -> (InDest(<<"i", "n", "d", "e", "x", ".", "m", "d", "x">>) :> File(IndexMdx)) @@ d
      [] name = <<"p", "o", "s", "t", ".", "m", "d", "x">> ->
            (InDest(<<"p", "o", "s", "t", ".", "m", "d", "x">>) :> File(processedText(<<"H", "e", "l", "l", "o">>, PostFolder)))
            @@ d
      [] name = <<"d", "a", "t", "a", ".", "b", "i", "n">> -> (InDest(<<"d", "a", "t", "a", ".", "b", "i", "n">>) :> File(<<"B", "I", "N">>)) @@ d

\* the disk after the destination folder is made and the first k entries of
\* the listing are pushed
RECURSIVE PushedDisk(_)
PushedDisk(k) ==
    IF k = 0 THEN DiskOf(doc) @@ (destinationFolderPath :> Dir)
    ELSE PushedEntry(PushedDisk(k - 1), listing[k])

\* the last notice is the one the catch block shows
ErrorShown == Len(notices) >= 1 /\ notices[Len(notices)].kind = "Ergror"

\* the disk is PushedDisk(k), but for what a copy of the directory that is
\* entry k + 1 left behind when it threw: fs.cpSync does not undo the part
\* it has done
PushedUpTo(k) ==
    LET pushed == PushedDisk(k)
    IN  \/ disk = pushed
        \/ /\ pc = "returned"
           /\ ErrorShown
           /\ k < Len(listing)
           /\ listing[k + 1] = <<"i", "m", "a", "g", "e", "s">>
           /\ \A q \in DOMAIN disk \cup DOMAIN pushed :
                 \/ startsWith(q, InDest(<<"i", "m", "a", "g", "e", "s">>))
                 \/ /\ q \in DOMAIN disk
                    /\ q \in DOMAIN pushed
                    /\ disk[q] = pushed[q]

\* the forEach has begun
InForEach == pc = "entries" \/ (pc = "returned" /\ listing # <<>>)

\* C12: folder push dispatch. After each entry the destination holds, for a
\* directory, a verbatim copy of its tree under the same name (its markdown
\* files unprocessed); for a name ending in .md or .mdx, the pipeline's text
\* under the base name with .mdx, and no file under the .md name; for any
\* other file, a copy under the same name; and nothing else is changed, in
\* the destination or in the source tree (an entry that throws is C18's
\* matter: of a directory a part may be copied).
FolderDispatch ==
    LET before == DiskOf(doc)
    IN  /\ InForEach => PushedUpTo(entryIdx)
        /\ \A q \in Under(before, VaultPath) :
              q \in DOMAIN disk /\ disk[q] = before[q]
        /\ Under(disk, VaultPath) = Under(before, VaultPath)
        /\ InDest(<<"i", "n", "d", "e", "x", ".", "m", "d">>) \notin DOMAIN disk

FolderDispatchWitness ==
    /\ pc = "returned"
    /\ listing = <<<<"d", "a", "t", "a", ".", "b", "i", "n">>, <<"i", "m", "a", "g", "e", "s">>, <<"i", "n", "d", "e", "x", ".", "m", "d">>>>
    /\ entryIdx = 3
    /\ destinationFolderPath = <<"/", "s", "i", "t", "e", "/", "m", "y", "-", "p", "o", "s", "t">>
    /\ disk[<<"/", "s", "i", "t", "e", "/", "m", "y", "-", "p", "o", "s", "t", "/", "i", "n", "d", "e", "x", ".", "m", "d", "x">>] = File(IndexMdx)
    /\ disk[<<"/", "s", "i", "t", "e", "/", "m", "y", "-", "p", "o", "s", "t", "/", "i", "m", "a", "g", "e", "s", "/", "n", ".", "m", "d">>] = File(<<"#", " ", "N", "e", "s", "t", "e", "d">>)
    /\ disk[<<"/", "s", "i", "t", "e", "/", "m", "y", "-", "p", "o", "s", "t", "/", "d", "a", "t", "a", ".", "b", "i", "n">>] = File(<<"B", "I", "N">>)
    /\ <<"/", "s", "i", "t", "e", "/", "m", "y", "-", "p", "o", "s", "t", "/", "i", "n", "d", "e", "x", ".", "m", "d">> \notin DOMAIN disk
    /\ <<"/", "s", "i", "t", "e", "/", "m", "y", "-", "p", "o", "s", "t", "/", "i", "m", "a", "g", "e", "s", "/", "n", ".", "m", "d", "x">> \notin DOMAIN disk

\* C13: fail-fast on invalid paths. When the default project folder or the
\* source folder (basePath joined with the folder of the active file) does
\* not exist, the push ends with the failure reported and the disk as it
\* was: no mkdir, no copy, no write.
FailFast ==
    /\ activeFile.present
    /\ \/ settings.defaultProjectFolder = <<"/", "g", "o", "n", "e">>
       \/ settings.basePath = <<"/", "l", "o", "s", "t">>
    => /\ disk = DiskOf(doc)
       /\ pc = "returned" => thrown \/ ErrorShown

\* the entries of the listing that can be pushed: readable, with all they
\* hold, and no directory in the way of the copy
Pushable(name) ==
    /\ name \notin doc.locked
    /\ ~(name = <<"i", "m", "a", "g", "e", "s">> /\ <<"a", ".", "p", "n", "g">> \in doc.locked)
    /\ ~(name = <<"d", "a", "t", "a", ".", "b", "i", "n">> /\ InDest(name) \in DOMAIN DiskOf(doc))
    /\ ~(/\ name = <<"i", "m", "a", "g", "e", "s">>
          /\ InDest(<<"i", "m", "a", "g", "e", "s", "/", "a", ".", "p", "n", "g">>) \in DOMAIN DiskOf(doc)
          /\ DiskOf(doc)[InDest(<<"i", "m", "a", "g", "e", "s", "/", "a", ".", "p", "n", "g">>)].kind = "dir")

\* C14: batch error policy. When an entry of the folder fails, the failure
\* is reported with a path and every entry that can be pushed is pushed all
\* the same, before it or after it in the listing.
SkipAndCollect ==
    pc = "returned" /\ listing # <<>> =>
        /\ (\E k \in 1..Len(listing) : ~Pushable(listing[k])) =>
              \E n \in 1..Len(notices) :
                  notices[n].kind = "Ergror" /\ Len(notices[n].path) > 0
        /\ \A k \in 1..Len(listing) :
              Pushable(listing[k]) =>
                  \A q \in DOMAIN PushedEntry(EmptyDisk, listing[k]) :
                      q \in DOMAIN disk
                      /\ disk[q] = PushedEntry(EmptyDisk, listing[k])[q]

PushedShown ==
    \E n \in 1..Len(notices) : notices[n].kind = "Your folder has been pushed!"

\* the index of the first entry of the listing that cannot be pushed, or 0
FirstFailing == First(1, Len(listing), LAMBDA k : ~Pushable(listing[k]))

\* C18: outcome reporting. The success notice is shown only when every
\* entry was pushed without a throw; when entry k throws the last notice is
\* the error notice, no success notice is shown, the entries before k are on
\* the destination as they were written and no entry after k is pushed; of
\* entry k itself, a directory, a part may have been copied.
OutcomeReported ==
    /\ PushedShown =>
          /\ pc = "returned"
          /\ FirstFailing = 0
          /\ entryIdx = Len(listing)
          /\ ~ErrorShown
          /\ disk = PushedDisk(Len(listing))
    /\ pc = "returned" /\ listing # <<>> /\ FirstFailing # 0 =>
          /\ ErrorShown
          /\ ~PushedShown
          /\ entryIdx = FirstFailing - 1
          /\ PushedUpTo(FirstFailing - 1)
    /\ pc = "returned" /\ listing # <<>> /\ FirstFailing = 0 => PushedShown

OutcomeReportedWitness ==
    /\ pc = "returned"
    /\ listing = <<<<"d", "a", "t", "a", ".", "b", "i", "n">>, <<"i", "n", "d", "e", "x", ".", "m", "d">>, <<"p", "o", "s", "t", ".", "m", "d", "x">>>>
    /\ doc.locked = {<<"i", "n", "d", "e", "x", ".", "m", "d">>}
    /\ destinationFolderPath = <<"/", "s", "i", "t", "e", "/", "m", "y", "-", "p", "o", "s", "t">>
    /\ entryIdx = 1
    /\ ErrorShown
    /\ disk[<<"/", "s", "i", "t", "e", "/", "m", "y", "-", "p", "o", "s", "t", "/", "d", "a", "t", "a", ".", "b", "i", "n">>] = File(<<"B", "I", "N">>)
    /\ <<"/", "s", "i", "t", "e", "/", "m", "y", "-", "p", "o", "s", "t", "/", "p", "o", "s", "t", ".", "m", "d", "x">> \notin DOMAIN disk

-----------------------------------------------------------------------------
(* C19: frame conditions of push and pull *)

\* the step is onChooseItem: the modal's own fields move, which no change
\* of the workspace or of the disk around the modal does
Chooses == pc = "modal" /\ modalVars' # modalVars

\* the step is taken by a push: push-md, or a choice in a PathModal opened
\* for Action.Push
IsPush == pc = "push-md" \/ (Chooses /\ action = "Push")

\* the step is taken by a pull: pull-md, or a choice in a PathModal opened
\* for Action.Pull
IsPull == pc = "pull-md" \/ (Chooses /\ action = "Pull")

\* the step is the callback of push-md or pull-md, or the choice of "Select"
\* or of the active file's name in the modal
Transfers == pc \in {"push-md", "pull-md"} \/ (pc = "modal" /\ pc' = "idle")

\* the folder the command works in
TransferFolder ==
    IF pc = "modal" THEN currPath ELSE settings.defaultProjectFolder

\* <folder>/<active file name>
TransferTarget ==
    IF TransferFolder = <<"/">> THEN <<"/">> \o activeFile.name
    ELSE TransferFolder \o <<"/">> \o activeFile.name

\* the target of a pull is missing or cannot be read
Unreadable ==
    \/ TransferTarget \notin DOMAIN disk
    \/ disk[TransferTarget].kind # "file"
    \/ ~disk[TransferTarget].readable

\* the step reports a push that succeeded
PushSucceeded ==
    /\ Len(notices') = Len(notices) + 1
    /\ notices'[Len(notices')].kind = "Your file has been pushed!"

\* C19: a push never changes the editor buffer and a pull never changes the
\* file system; when the folder of the command does not exist neither of
\* them changes; a pull whose target is missing or unreadable leaves the
\* editor buffer as it was; a push that succeeds leaves the editor text,
\* unchanged, in <folder>/<active file name>, and nothing else on the disk
\* changes.
PushPullFrame ==
    [][ /\ IsPush => editorText' = editorText
        /\ IsPull => disk' = disk
        /\ (Transfers /\ TransferFolder \notin DOMAIN disk)
              => disk' = disk /\ editorText' = editorText
        /\ (Transfers /\ IsPull /\ Unreadable) => editorText' = editorText
        /\ (Transfers /\ IsPush /\ PushSucceeded)
              => /\ DOMAIN disk' = DOMAIN disk \cup {TransferTarget}
                 /\ disk'[TransferTarget] =
                       [kind |-> "file", data |-> editorText,
                        readable |-> TRUE]
                 /\ \A q \in DOMAIN disk \ {TransferTarget} :
                       disk'[q] = disk[q]
      ]_vars

\* C19 witness: a push through the modal has replaced the old copy in
\* /root/blog by the editor text
PushPullFrameWitness ==
    /\ pc = "idle"
    /\ action = "Push"
    /\ currPath = <<"/", "r", "o", "o", "t", "/", "b", "l", "o", "g">>
    /\ doc.target = "file"
    /\ Len(notices) = 1
    /\ notices[1].kind = "Your file has been pushed!"
    /\ disk[<<"/", "r", "o", "o", "t", "/", "b", "l", "o", "g", "/", "n", "o", "t", "e", ".", "m", "d">>].data = <<"D", "r", "a", "f", "t">>
    /\ editorText = <<"D", "r", "a", "f", "t">>

-----------------------------------------------------------------------------
(* C20: navigation in the PathModal *)

\* the item chosen in the step ends the modal: "Select" or the active
\* file's name
ChoiceEnds ==
    dir' = <<"S", "e", "l", "e", "c", "t">> \/ (activeFile.present /\ dir' = activeFile.name)

\* the directory an item other than those leads to
Entered ==
    IF dir' = <<".", ".">> THEN dirname(currPath)
    ELSE IF currPath = <<"/">> THEN <<"/">> \o dir'
    ELSE currPath \o <<"/">> \o dir'

\* a list ends with ".." and "Select", and the entries before them start
\* with a dot only when showHiddenFolders is set
ListEndsAndHides(list, showHidden) ==
    /\ Len(list) >= 2
    /\ list[Len(list) - 1] = <<".", ".">>
    /\ list[Len(list)] = <<"S", "e", "l", "e", "c", "t">>
    /\ \A k \in 1..(Len(list) - 2) : list[k][1] = "." => showHidden

\* getItems() returns to open() in the step: the directory can be read
ListReturned ==
    /\ \/ pc \in {"push-custom-path-md", "pull-custom-path"}
       \/ (Chooses /\ ~ChoiceEnds)
    /\ ~readdirThrows(disk, currPath')

\* every list getItems() returns holds the kept entries of currPath, each
\* once, and it ends and hides as said
ItemsOffered ==
    ListReturned =>
        LET kept == keptNames(disk, currPath', activeFile,
                              settings.showHiddenFolders)
            shown == items'
        IN  /\ Len(shown) = Cardinality(kept) + 2
            /\ {shown[k] : k \in 1..(Len(shown) - 2)} = kept
            /\ ListEndsAndHides(shown, settings.showHiddenFolders)

\* the list of an open modal is one getItems() returned under the setting
\* of now, or none was returned yet
ItemsOnShow ==
    modalOpen /\ items # <<>> =>
        ListEndsAndHides(items, settings.showHiddenFolders)

\* opening the modal starts it at the home directory
OpensAtHome ==
    pc \in {"push-custom-path-md", "pull-custom-path"}
        => currPath' = <<"/", "r", "o", "o", "t">>

\* an item other than "Select" and the active file's name: currPath becomes
\* the directory, nothing is pushed or pulled, and this.open() is called: the
\* modal is on screen again unless readdirSync throws out of the call
Navigates ==
    (Chooses /\ ~ChoiceEnds)
        => /\ currPath' = Entered
           /\ disk' = disk
           /\ editorText' = editorText
           /\ notices' = notices
           /\ IF readdirThrows(disk, currPath')
              THEN thrown' /\ items' = items
              ELSE modalOpen' /\ pc' = "modal" /\ thrown' = thrown

\* "Select" or the active file's name: at most one push or pull against
\* <currPath>/<active file name>, currPath stays and the modal is not opened
\* again
Selects ==
    (Chooses /\ ChoiceEnds)
        => /\ currPath' = currPath
           /\ ~modalOpen'
           /\ pc' = "idle"
           /\ Len(notices') <= Len(notices) + 1
           /\ \A q \in (DOMAIN disk \cup DOMAIN disk') \ {TransferTarget} :
                 q \in DOMAIN disk /\ q \in DOMAIN disk' /\ disk'[q] = disk[q]
           /\ \/ editorText' = editorText
              \/ /\ TransferTarget \in DOMAIN disk
                 /\ editorText' = disk[TransferTarget].data
           /\ disk' = disk \/ editorText' = editorText

\* C20: the PathModal starts at the home directory; an item other than
\* "Select" and the active file's name sets currPath to the directory it
\* names (".." to the parent), reads and writes no file and opens the modal
\* again; "Select" and the active file's name do at most one push or pull
\* against <currPath>/<active file name>, leave currPath as it is and do not
\* open the modal again; every list offered, which is every list getItems()
\* returns and every list an open modal shows, ends with ".." and "Select"
\* and holds a dot-prefixed entry only when showHiddenFolders is set. The
\* call this.open() of a choice of the first kind puts the modal on screen
\* with the list of the new currPath; when readdirSync throws on that
\* directory the error leaves the call and no list is offered.
ModalNavigation ==
    /\ []ItemsOnShow
    /\ [][OpensAtHome /\ Navigates /\ Selects /\ ItemsOffered]_vars

\* the hidden folder .cfg of the home directory was chosen with
\* showHiddenFolders set: the modal is open on /root/.cfg, whose list is
\* ".." and "Select" alone
ModalNavigationWitness ==
    /\ pc = "modal"
    /\ modalOpen
    /\ settings.showHiddenFolders
    /\ dir = <<".", "c", "f", "g">>
    /\ currPath = <<"/", "r", "o", "o", "t", "/", ".", "c", "f", "g">>
    /\ items = <<<<".", ".">>, <<"S", "e", "l", "e", "c", "t">>>>

-----------------------------------------------------------------------------
(* C21: the destination of push-md-folder with path mappings *)

\* the directory that holds the source folder notes/my-post
ContainingFolder == settings.basePath \o <<"/", "n", "o", "t", "e", "s">>

\* the mappings whose sourcePath is that directory
Matching ==
    {j \in 1..Len(settings.pathMappings) :
        settings.pathMappings[j].sourcePath = ContainingFolder}

\* the first of them
FirstMatching == CHOOSE j \in Matching : \A k \in Matching : j <= k

\* the folder the push goes to
Destination ==
    IF Matching = {} THEN settings.defaultProjectFolder \o <<"/", "m", "y", "-", "p", "o", "s", "t">>
    ELSE settings.pathMappings[FirstMatching].destinationPath \o <<"/", "m", "y", "-", "p", "o", "s", "t">>

\* the callback is past the choice of the destination
DestinationChosen ==
    \/ pc \in {"mkdir", "readdir", "entries"}
    \/ pc = "returned" /\ ~thrown /\ activeFile.present

\* the push has failed in validatePath and the disk is as it was
FailedUnwritten ==
    /\ disk = DiskOf(doc)
    /\ ~DestinationChosen
    /\ pc \in {"idle", "push-md-folder", "returned"}
    /\ pc = "returned" => (thrown /\ notices = <<>>)

\* C21: with an active file, the destination folder is
\* <destinationPath>/<source folder name> for the first mapping whose
\* sourcePath is the directory holding the source folder, and
\* <defaultProjectFolder>/<source folder name> when no mapping matches; when
\* the default project folder does not exist the push fails with nothing
\* written, with or without a matching mapping, and so it does when the
\* matching mapping's destinationPath does not exist.
DestinationSelection ==
    /\ DestinationChosen => destinationFolderPath = Destination
    /\ settings.defaultProjectFolder \notin DOMAIN DiskOf(doc)
          => FailedUnwritten
    /\ ( /\ activeFile.present
         /\ Matching # {}
         /\ settings.pathMappings[FirstMatching].destinationPath
               \notin DOMAIN DiskOf(doc) )
          => /\ disk = DiskOf(doc)
             /\ ~DestinationChosen
             /\ pc = "returned" => thrown

\* C21 witness: of three mappings the second and the third match, and the
\* folder has been pushed to the destination of the second
DestinationSelectionWitness ==
    /\ pc = "returned"
    /\ PushedShown
    /\ Len(settings.pathMappings) = 3
    /\ Matching = {2, 3}
    /\ destinationFolderPath = <<"/", "b", "l", "o", "g", "/", "m", "y", "-", "p", "o", "s", "t">>
    /\ <<"/", "b", "l", "o", "g", "/", "m", "y", "-", "p", "o", "s", "t", "/", "i", "n", "d", "e", "x", ".", "m", "d", "x">> \in DOMAIN disk
    /\ <<"/", "a", "l", "t", "/", "m", "y", "-", "p", "o", "s", "t">> \notin DOMAIN disk

====
